---- MODULE Spec2Model ----
(***************************************************************************)
(* The typed flat-file table store of prognosec (filebase):                *)
(* DatabaseManager, Meta, TableMonolithic, TableSpliced and the            *)
(* ThreadPoolQueue that persists the shards of a spliced table.            *)
(*                                                                         *)
(* Python values are modelled by their str() tokens: the ints 1 and 2 are  *)
(* "1" and "2", the strs 'a' and 'b' are "a" and "b", None is "None".      *)
(* A record is a sequence of such tokens, one per column.                  *)
(***************************************************************************)
EXTENDS Integers, Sequences, FiniteSets, TLC

\* ------------------------------------------------------------------ bounds
\* longest batch handed to one add call
MaxBatch == 2
\* worker threads (and queue capacity) of one ThreadPoolQueue; the store
\* builds its pools with 50, the model scales that down
NumThreads == 2

\* ------------------------------------------------------------ Python values
PyNone == "None"
PyInts == {"1", "2"}
PyStrs == {"a", "b"}

\* type(value).__name__
TypeName(v) ==
  IF v \in PyInts THEN "int" ELSE IF v = PyNone THEN "NoneType" ELSE "str"

\* the order Python's < gives two values of one type
Ord(v) ==
  IF v \in {"1", "a"} THEN 1
  ELSE IF v \in {"2", "a_b"} THEN 2
  ELSE IF v = "b" THEN 3
  ELSE 4

\* conforms_typerule for the primitive rules the tables of the model use:
\* isinstance(value, types_str2object(typerule))
conforms_typerule(value, typerule) == TypeName(value) = typerule

\* an optional value (foreign, splice_keys): None or a tuple or dict
NoneT == [none |-> TRUE, items |-> <<>>]
SomeT(s) == [none |-> FALSE, items |-> s]

\* what json.dump writes for a tuple (an array) and for None (null)
JNull == [j |-> "null", items |-> <<>>]
JArray(s) == [j |-> "array", items |-> s]
ToJson(o) == IF o.none THEN JNull ELSE JArray(o.items)
\* the same for an optional dict (foreign): an object or null
JObject(d) == [j |-> "object", items |-> d]
DictToJson(o) == IF o.none THEN JNull ELSE JObject(o.items)

\* a datetime: whole seconds s and microseconds us; utcnow() is the clock
\* with the microseconds set to 0
utcnow(clock) == [s |-> clock, us |-> 0]
\* Meta.write formats a datetime_second field as '%Y-%m-%dT%H:%M:%SZ',
\* which leaves the microseconds out
FormatDatetime(t) == [iso |-> t.s]
\* apply_typerule(value, 'datetime_second') parses it back (isostr2dt with
\* hasmicro=False): a datetime of 0 microseconds
ParseDatetime(j) == [s |-> j.iso, us |-> 0]

\* results of a call: "ok" or the name of the exception it raised
Range(f) == {f[i] : i \in DOMAIN f}

\* ------------------------------------------------------------------- schema
TableNames == {"t1", "t2"}
Columns == <<"x1", "x2">>
Datatypes == <<"int", "str">>
ValidStorageTypes == {"monolithic", "rolling", "spliced"}

\* columns.index(c)
ColumnIndex(columns, c) == CHOOSE i \in 1..Len(columns) : columns[i] = c

\* retriever(indices): getter(array) = tuple(array[i] for i in indices)
retriever(indices, array) == [i \in 1..Len(indices) |-> array[indices[i]]]

KeysIndex(meta) == [i \in 1..Len(meta.keys) |-> ColumnIndex(meta.columns, meta.keys[i])]
keys_getter(meta, rec) == retriever(KeysIndex(meta), rec)

SpliceIndex(meta) ==
  [i \in 1..Len(meta.splice_keys.items) |->
     ColumnIndex(meta.columns, meta.splice_keys.items[i])]
splice_key_getter(meta, rec) == retriever(SpliceIndex(meta), rec)

\* ---------------------------------------------------------------- variables
VARIABLES
  dbmeta,       \* DatabaseManager._meta, shared with every Table instance
  dbmeta_file,  \* content of database_meta.json
  fs,           \* fs[n]: the directory stores/table__n and its files
  tbl,          \* tbl[n]: the Table instance create_table returned for n
  pool,         \* pool[n]: the ThreadPoolQueue of the TableSpliced instance
  jobs,         \* every package ever enqueued, with its invocation count
  frame,        \* the caller's position inside a TableSpliced.add call
  now,          \* operations begun so far; also what utcnow() returns
  lastOp,       \* the operation that returned last, and its result
  metaobj,      \* a Meta instance: its fields, their edited flags, last call
  template,     \* a MetaTemplate instance: its typespecs, frozen, last call
  checked       \* the last conforms_typerule call: value, rule and outcome

\* the variables of the store, and those of the objects used on their own
storeVars == <<dbmeta, dbmeta_file, fs, tbl, pool, jobs, frame, now, lastOp>>
objVars == <<metaobj, template, checked>>

vars ==
  <<dbmeta, dbmeta_file, fs, tbl, pool, jobs, frame, now, lastOp, metaobj,
    template, checked>>

\* ------------------------------------------------------------------- Meta
\* an edit of a tuple field that stores the new value in place of the
\* current one
EditTupleReplaces(currvalue, value) == value

\* Meta.edit on a field whose rule root is 'tuple' and whose current value
\* is a tuple: the new value is appended to the current one
EditTuple(currvalue, value) == currvalue \o value

\* Meta.edit on a field whose rule root is 'dict' and whose current value
\* is a dict: dict.update
EditDict(currvalue, value) ==
  [k \in (DOMAIN currvalue) \cup (DOMAIN value) |->
     IF k \in DOMAIN value THEN value[k] ELSE currvalue[k]]

\* Meta.write of the database Meta
DbMetaToJson(m) ==
  [tables |-> JArray(m.tables),
   last_modified |-> FormatDatetime(m.last_modified),
   total_table_records |-> m.total_table_records,
   table_meta_locations |-> m.table_meta_locations]

\* Meta.write of a table Meta
TblMetaToJson(m) ==
  [name |-> m.name,
   created |-> FormatDatetime(m.created),
   last_modified |-> FormatDatetime(m.last_modified),
   columns |-> JArray(m.columns),
   datatypes |-> JArray(m.datatypes),
   keys |-> JArray(m.keys),
   enforce_integrity |-> m.enforce_integrity,
   nrecords |-> m.nrecords,
   storage_type |-> m.storage_type,
   foreign |-> DictToJson(m.foreign),
   splice_keys |-> ToJson(m.splice_keys)]

NoMeta ==
  [name |-> "", created |-> utcnow(0), last_modified |-> utcnow(0),
   columns |-> <<>>, datatypes |-> <<>>, keys |-> <<>>,
   enforce_integrity |-> FALSE, nrecords |-> 0, storage_type |-> "",
   foreign |-> NoneT, splice_keys |-> NoneT]

\* apply_typerule(value, 'tuple[str]') and apply_typerule(value,
\* 'dict[str, str]'): both iterate over the decoded value, which raises
\* TypeError when the file holds null
ApplyContainerRaises(j) == j.j = "null"

\* the database meta file decoded and converted with apply_typerule, field
\* by field
ApplyDbMeta(j) ==
  [tables |-> j.tables.items,
   last_modified |-> ParseDatetime(j.last_modified),
   total_table_records |-> j.total_table_records,
   table_meta_locations |-> j.table_meta_locations]

\* the same for a table's metadata.json
ApplyTblMeta(j) ==
  IF ApplyContainerRaises(j.foreign) \/ ApplyContainerRaises(j.splice_keys)
  THEN [err |-> "TypeError", meta |-> NoMeta]
  ELSE [err |-> "ok",
        meta |-> [name |-> j.name,
                  created |-> ParseDatetime(j.created),
                  last_modified |-> ParseDatetime(j.last_modified),
                  columns |-> j.columns.items,
                  datatypes |-> j.datatypes.items,
                  keys |-> j.keys.items,
                  enforce_integrity |-> j.enforce_integrity,
                  nrecords |-> j.nrecords,
                  storage_type |-> j.storage_type,
                  foreign |-> SomeT(j.foreign.items),
                  splice_keys |-> SomeT(j.splice_keys.items)]]

\* ------------------------------------------------------------- file system
MetaFileLocation(n) == "stores/table__" \o n \o "/metadata.json"

NoIndex == [k \in {} |-> <<>>]
NoFiles == [f \in {} |-> <<>>]
NoDir ==
  [exists |-> FALSE, metadata |-> TblMetaToJson(NoMeta), has_meta |-> FALSE,
   index |-> NoIndex, has_index |-> FALSE, recs |-> NoFiles]

\* DatabaseManager.tables: the names of the directories under stores/
DirTables == {n \in TableNames : fs[n].exists}

\* TableAbstract.filenames
filenames(n) == DOMAIN fs[n].recs

\* ------------------------------------------------------- record validation
Min(a, b) == IF a < b THEN a ELSE b

\* _new_records_checks, line 328: len(a_record) != len(self.columns)
BadArity(rec, columns) == Len(rec) # Len(columns)

\* _new_records_checks, lines 334-346: some element that is not None does
\* not conform to the type rule of its column
BadType(rec, datatypes) ==
  \E e \in 1..Min(Len(rec), Len(datatypes)) :
    rec[e] # PyNone /\ ~conforms_typerule(rec[e], datatypes[e])

\* validation that looks at the first record of the batch only
new_records_checks_first_only(records, columns, datatypes) ==
  IF records = <<>> THEN "ok"
  ELSE IF BadArity(records[1], columns) THEN "ValueError"
  ELSE IF BadType(records[1], datatypes) THEN "TypeError"
  ELSE "ok"

\* _new_records_checks: the error of the first offending record, or "ok"
new_records_checks(records, columns, datatypes) ==
  LET bad == {i \in 1..Len(records) :
                BadArity(records[i], columns) \/ BadType(records[i], datatypes)}
  IN IF bad = {} THEN "ok"
     ELSE LET i == CHOOSE i \in bad : \A j \in bad : i <= j
          IN IF BadArity(records[i], columns) THEN "ValueError" ELSE "TypeError"

\* ------------------------------------------------------------ json records
\* json.dump(records): every tuple becomes an array
DumpRecords(records) == [i \in 1..Len(records) |-> JArray(records[i])]
\* [tuple(i) for i in json.load(f)]
LoadRecords(json) == [i \in 1..Len(json) |-> json[i].items]

\* --------------------------------------------------------- TableMonolithic
MonoFilename(n) == "recs__" \o n \o "__monolithic.json"

\* generate_index_monolithic: itertools.groupby over the records in list
\* order, no sort; a later run of a key overwrites an earlier one; the row
\* indices are zero-based
generate_index_monolithic(records, meta) ==
  LET key(i) == keys_getter(meta, records[i])
      ks == {key(i) : i \in 1..Len(records)}
      last(k) == CHOOSE i \in 1..Len(records) :
                   key(i) = k /\ \A j \in (i + 1)..Len(records) : key(j) # k
      first(k) == CHOOSE i \in 1..last(k) :
                    /\ \A j \in i..last(k) : key(j) = k
                    /\ (i = 1 \/ key(i - 1) # k)
  IN [k \in ks |-> [p \in 1..(last(k) - first(k) + 1) |-> first(k) + p - 2]]

\* the index setter of TableMonolithic: the index conforms to
\* dict[tuple[int|str|float|bool], tuple[int]]
IndexConformsMono(index) ==
  \A k \in DOMAIN index : \A i \in 1..Len(k) : TypeName(k[i]) # "NoneType"

\* TableMonolithic.add, lines 426-442: the insertion loop. st is the
\* instance's records and index, with the exception raised so far.
RECURSIVE MonoInsert(_, _, _, _, _)
MonoInsert(meta, st, batch, i, method) ==
  IF i > Len(batch) THEN st
  ELSE IF keys_getter(meta, batch[i]) \in DOMAIN st.index
  THEN IF method = "raise"
       THEN [st EXCEPT !.err = "IndexError"]
       ELSE MonoInsert(meta, st, batch, i + 1, method)
  ELSE LET recs2 == Append(st.records, batch[i])
           idx2 == generate_index_monolithic(recs2, meta)
       IN IF IndexConformsMono(idx2)
          THEN MonoInsert(meta,
                          [st EXCEPT !.records = recs2, !.index = idx2,
                                     !.steps = @ \o <<"records", "index">>],
                          batch, i + 1, method)
          ELSE [st EXCEPT !.records = recs2, !.err = "TypeError",
                          !.steps = @ \o <<"records">>]

\* the else branch of line 440: extend, then one index rebuild
MonoExtend(meta, st, batch) ==
  LET recs2 == st.records \o batch
      idx2 == generate_index_monolithic(recs2, meta)
  IN IF IndexConformsMono(idx2)
     THEN [st EXCEPT !.records = recs2, !.index = idx2,
                     !.steps = @ \o <<"records", "index">>]
     ELSE [st EXCEPT !.records = recs2, !.err = "TypeError",
                     !.steps = @ \o <<"records">>]

\* TableMonolithic.select and retrieve
MonoSelect(n, colindex) ==
  [i \in 1..Len(tbl[n].records) |-> retriever(colindex, tbl[n].records[i])]
MonoRetrieve(n) == tbl[n].records

\* ------------------------------------------------------------ TableSpliced
RECURSIVE JoinUnderscore(_)
JoinUnderscore(vals) ==
  IF Len(vals) = 0 THEN ""
  ELSE IF Len(vals) = 1 THEN vals[1]
  ELSE vals[1] \o "_" \o JoinUnderscore(Tail(vals))

\* a file name that leaves the splice values out
SplicedFilenameNoValues(splice_values) == "recs____spliced.json"

\* _get_filename: 'recs__' + '_'.join(str(i) for i in splice_values) + ...
SplicedFilename(splice_values) ==
  "recs__" \o JoinUnderscore(splice_values) \o "__spliced.json"

\* tuple comparison a < b for tuples of one length whose elements have
\* equal types position by position
TupleLess(a, b) ==
  \E i \in 1..Len(a) :
    /\ \A j \in 1..(i - 1) : a[j] = b[j]
    /\ a[i] # b[i]
    /\ Ord(a[i]) < Ord(b[i])

\* comparing a and b raises TypeError: the first elements that differ have
\* different types (None against an int)
CompareRaises(a, b) ==
  \E i \in 1..Len(a) :
    /\ \A j \in 1..(i - 1) : a[j] = b[j]
    /\ a[i] # b[i]
    /\ TypeName(a[i]) # TypeName(b[i])

\* sorted(records, key=self._splice_key_getter) raises TypeError
SortRaises(meta, records) ==
  \E i, j \in 1..Len(records) :
    CompareRaises(splice_key_getter(meta, records[i]),
                  splice_key_getter(meta, records[j]))

\* _splice_grouper: stable sort on the splice key, then itertools.groupby
splice_grouper(meta, records) ==
  LET ks == {splice_key_getter(meta, records[i]) : i \in 1..Len(records)}
      rank(k) == Cardinality({k2 \in ks : TupleLess(k2, k)}) + 1
      keyAt(r) == CHOOSE k \in ks : rank(k) = r
  IN [r \in 1..Cardinality(ks) |->
        [key |-> keyAt(r),
         recs |-> SelectSeq(records,
                    LAMBDA x : splice_key_getter(meta, x) = keyAt(r))]]

\* TableSpliced._load_records(splice_values): the shard file if it exists
load_records(n, splice_values) ==
  IF fs[n].exists /\ SplicedFilename(splice_values) \in DOMAIN fs[n].recs
  THEN LoadRecords(fs[n].recs[SplicedFilename(splice_values)])
  ELSE <<>>

\* _save_records, line 565: _load_records is handed the file PATH as the
\* splice values, so it looks for 'recs__' + '_'.join(path) + '__spliced.json',
\* a file in the directory <table>/recs__, which the store never creates
load_records_by_path(n, filepath) == <<>>

\* TableSpliced.select(columns, splice_value) and retrieve(splice_value)
select(n, colindex, splice_value) ==
  LET records == load_records(n, splice_value)
  IN [i \in 1..Len(records) |-> retriever(colindex, records[i])]
retrieve(n, splice_value) ==
  select(n, [i \in 1..Len(tbl[n].meta.columns) |-> i], splice_value)

\* ---------------------------------------------------------------- instances
NoTable ==
  [live |-> FALSE, variant |-> "", meta |-> NoMeta, records |-> <<>>,
   index |-> NoIndex, accepted |-> {}]

NoRet ==
  [variant |-> "", columns |-> <<>>, datatypes |-> <<>>, keys |-> <<>>,
   nrecords |-> 0]

\* the record of a returned call: its arguments, "ok" or the exception it
\* raised, and what it returned; empty_before and collides describe the
\* table when an add call began; a wait_completion that directly follows a
\* successful add on its table keeps that add's fields (after_add); chain says
\* that the successful adds on a TableSpliced since its creation followed one
\* another with no other call between, and run lists the records they
\* accepted, in the order of acceptance
MkOp(name, table, result) ==
  [name |-> name, table |-> table, records |-> <<>>, method |-> "",
   storage_type |-> "", splice_keys |-> NoneT, result |-> result,
   ret |-> NoRet, empty_before |-> FALSE, collides |-> FALSE,
   after_add |-> FALSE, steps |-> <<>>, chain |-> FALSE, run |-> <<>>]

IdleFrame ==
  [pc |-> "idle", table |-> "", records |-> <<>>, method |-> "",
   groups |-> <<>>, i |-> 1, num_new_recs |-> 0, accepted |-> {},
   empty_before |-> FALSE, collides |-> FALSE, steps |-> <<>>,
   taken |-> <<>>]

IdleWorker == [st |-> "idle", job |-> 0]
NoPool ==
  [queue |-> <<>>, unfinished |-> 0,
   workers |-> [w \in 1..NumThreads |-> IdleWorker]]

\* init_database followed by DatabaseManager(dbpath): an empty database
InitStore ==
  /\ dbmeta = [tables |-> <<>>, last_modified |-> utcnow(0),
               total_table_records |-> 0,
               table_meta_locations |-> [k \in {} |-> ""]]
  /\ dbmeta_file = DbMetaToJson(dbmeta)
  /\ fs = [n \in TableNames |-> NoDir]
  /\ tbl = [n \in TableNames |-> NoTable]
  /\ pool = [n \in TableNames |-> NoPool]
  /\ jobs = <<>>
  /\ frame = IdleFrame
  /\ now = 0
  /\ lastOp = MkOp("init_database", "", "ok")

\* -------------------------------------------------------- conforms_typerule
\* a value as conforms_typerule sees it: the name of its type, the items
\* of a list or tuple (the keys of a dict) and the values of a dict
TAtom(t) == [t |-> t, items |-> <<>>, vals |-> <<>>]
TSeq(t, items) == [t |-> t, items |-> items, vals |-> <<>>]
TDict(keys, vals) == [t |-> "dict", items |-> keys, vals |-> vals]

\* a type rule is the string the caller writes, kept as the sequence of
\* its names and of the characters [ ] | , ~ between them
\* types_str2object: the names it knows
KnownTypes ==
  {"int", "str", "bool", "float", "set", "list", "tuple", "dict", "ndarray",
   "date", "datetime", "datetime_second", "datetime_microsecond", "time",
   "none", "null", "function", "callable"}

\* isinstance(value, types_str2object(name)); a bool is an int
IsInstance(value, name) ==
  IF name = "int" THEN value.t \in {"int", "bool"} ELSE value.t = name

\* str.count, str.find (0 when absent), str.rfind, and the place of the
\* first "]|"
Count(s, ch) == Cardinality({i \in 1..Len(s) : s[i] = ch})
Find(s, ch) ==
  IF \E i \in 1..Len(s) : s[i] = ch
  THEN CHOOSE i \in 1..Len(s) : s[i] = ch /\ \A j \in 1..(i - 1) : s[j] # ch
  ELSE 0
RFind(s, ch) ==
  IF \E i \in 1..Len(s) : s[i] = ch
  THEN CHOOSE i \in 1..Len(s) :
         s[i] = ch /\ \A j \in (i + 1)..Len(s) : s[j] # ch
  ELSE 0
IsCloseBar(s, i) == i < Len(s) /\ s[i] = "]" /\ s[i + 1] = "|"
FindCloseBar(s) ==
  IF \E i \in 1..Len(s) : IsCloseBar(s, i)
  THEN CHOOSE i \in 1..Len(s) :
         IsCloseBar(s, i) /\ \A j \in 1..(i - 1) : ~IsCloseBar(s, j)
  ELSE 0

\* typerule.split("|")
RECURSIVE SplitBar(_)
SplitBar(s) ==
  LET i == Find(s, "|")
  IN IF i = 0 THEN <<s>>
     ELSE <<SubSeq(s, 1, i - 1)>> \o SplitBar(SubSeq(s, i + 1, Len(s)))

\* all(output) and any(output) of a list whose building may have raised:
\* the first exception, else the boolean
IsError(r) == r \notin {"true", "false"}
FirstError(rs) ==
  rs[CHOOSE i \in 1..Len(rs) :
       IsError(rs[i]) /\ \A j \in 1..(i - 1) : ~IsError(rs[j])]
AllOf(rs) ==
  IF \E i \in 1..Len(rs) : IsError(rs[i]) THEN FirstError(rs)
  ELSE IF \A i \in 1..Len(rs) : rs[i] = "true" THEN "true" ELSE "false"
AnyOf(rs) ==
  IF \E i \in 1..Len(rs) : IsError(rs[i]) THEN FirstError(rs)
  ELSE IF \E i \in 1..Len(rs) : rs[i] = "true" THEN "true" ELSE "false"

\* _seq_or_split: the rule left of the first "]|" with its brackets closed,
\* and the rule right of it; when the right rule closes a bracket the left
\* one opened, the right rule gets the left rule's sequence type in front
\* and is split again.  A second such bracket adds a str to a list
RECURSIVE seq_or_split(_)
seq_or_split(typerule) ==
  LET k == FindCloseBar(typerule)
      left0 == SubSeq(typerule, 1, k - 1)
      right0 == SubSeq(typerule, k + 2, Len(typerule))
      nleft == Count(left0, "[") - Count(left0, "]")
      left == IF nleft > 0 THEN left0 \o [i \in 1..nleft |-> "]"] ELSE left0
      missing_left == Count(right0, "]") - Count(right0, "[")
      sub_left_rule == SubSeq(left, 1, Find(left, "[") - 1)
      inner == seq_or_split(sub_left_rule \o <<"[">> \o right0)
  IN IF k = 0 THEN [err |-> "ok", rules |-> <<typerule>>]
     ELSE IF missing_left <= 0
     THEN [err |-> "ok", rules |-> <<left, right0>>]
     ELSE IF Find(left, "[") = 0 THEN [err |-> "ValueError", rules |-> <<>>]
     ELSE IF inner.err # "ok" THEN inner
     ELSE IF missing_left > 1 THEN [err |-> "TypeError", rules |-> <<>>]
     ELSE [err |-> "ok", rules |-> <<left>> \o inner.rules]

\* the primitive branch of conformance
ConformsPrimitive(value, typerule) ==
  IF typerule = <<"primitive">>
  THEN IF value.t \in {"int", "float", "bool", "str", "NoneType"}
       THEN "true" ELSE "false"
  ELSE IF Len(typerule) # 1 \/ typerule[1] \notin KnownTypes
  THEN "ValueError"
  ELSE IF typerule[1] \in {"none", "null"}
  THEN IF value.t = "NoneType" THEN "true" ELSE "false"
  ELSE IF IsInstance(value, typerule[1]) THEN "true" ELSE "false"

\* conformance(value, typerule) of conforms_typerule, on any rule: "true",
\* "false" or the exception that leaves the function
RECURSIVE Conformance(_, _)
Conformance(value, typerule) ==
  LET open == Find(typerule, "[")
      seqtype == SubSeq(typerule, 1, open - 1)
      rest == SubSeq(typerule, open + 1, Len(typerule))
      elemtype == IF RFind(rest, "]") = 0 THEN rest
                  ELSE SubSeq(rest, 1, RFind(rest, "]") - 1)
      comma == Find(elemtype, ",")
      dict_keytype == SubSeq(elemtype, 1, comma - 1)
      dict_valuetype == SubSeq(elemtype, comma + 1, Len(elemtype))
      split == seq_or_split(typerule)
      bars == SplitBar(typerule)
  IN IF Count(typerule, "[") # Count(typerule, "]") THEN "ValueError"
     ELSE IF open > 0 /\ FindCloseBar(typerule) = 0
     THEN IF seqtype = <<"dict">>
          THEN IF value.t # "dict" THEN "AttributeError"
               ELSE IF comma = 0 THEN "ValueError"
               ELSE AllOf([i \in 1..Len(value.items) |->
                             Conformance(value.items[i], dict_keytype)]
                          \o [i \in 1..Len(value.vals) |->
                                Conformance(value.vals[i], dict_valuetype)])
          ELSE IF Len(seqtype) # 1 \/ seqtype[1] \notin KnownTypes
          THEN "ValueError"
          ELSE IF IsInstance(value, seqtype[1])
          THEN AllOf(<<"true">> \o [i \in 1..Len(value.items) |->
                                     Conformance(value.items[i], elemtype)])
          ELSE "false"
     ELSE IF FindCloseBar(typerule) > 0
     THEN IF split.err # "ok" THEN split.err
          ELSE AnyOf([i \in 1..Len(split.rules) |->
                        Conformance(value, split.rules[i])])
     ELSE IF Find(typerule, "|") > 0
     THEN AnyOf([i \in 1..Len(bars) |-> Conformance(value, bars[i])])
     ELSE ConformsPrimitive(value, typerule)

\* typerule.replace(' ', '').replace('~', '').lower()
StripMarkers(typerule) == SelectSeq(typerule, LAMBDA ch : ch # "~")

\* conforms_typerule on a rule string
ConformsTyperule(value, typerule) ==
  Conformance(value, StripMarkers(typerule))

\* ------------------------------------------------------------- type rules
\* a well-formed rule, before it is written out: a primitive name, a
\* sequence type with the rule of its elements, a dict with the rules of
\* its keys and of its values, or a union of rules
RPrim(name) == [k |-> "prim", name |-> name, subs |-> <<>>]
RSeq(name, elem) == [k |-> "seq", name |-> name, subs |-> <<elem>>]
RDict(key, val) == [k |-> "dict", name |-> "dict", subs |-> <<key, val>>]
RUnion(variants) == [k |-> "union", name |-> "", subs |-> variants]

\* the rule string: name, name[rule], dict[rule,rule], rule|rule|...
RECURSIVE Written(_)
RECURSIVE WrittenUnion(_)
WrittenUnion(variants) ==
  IF Len(variants) = 1 THEN Written(variants[1])
  ELSE Written(variants[1]) \o <<"|">> \o WrittenUnion(Tail(variants))
Written(rule) ==
  CASE rule.k = "prim" -> <<rule.name>>
    [] rule.k = "seq" -> <<rule.name, "[">> \o Written(rule.subs[1]) \o <<"]">>
    [] rule.k = "dict" ->
         <<"dict", "[">> \o Written(rule.subs[1]) \o <<",">>
           \o Written(rule.subs[2]) \o <<"]">>
    [] OTHER -> WrittenUnion(rule.subs)

NoCheck ==
  [value |-> TAtom("NoneType"), rule |-> RPrim("none"),
   typerule |-> <<"none">>, result |-> "true", calls |-> 0]

\* typechecks.conforms_typerule(value, typerule)
Conforms(value, rule) ==
  /\ checked' = [value |-> value, rule |-> rule, typerule |-> Written(rule),
                 result |-> ConformsTyperule(value, Written(rule)),
                 calls |-> 1]
  /\ UNCHANGED <<storeVars, metaobj, template>>

\* ------------------------------------------------- values of a Meta field
\* a Python object held by a Meta field or passed to a Meta call: its type
\* name t and its content in the field its type uses (items for a tuple or
\* a list, elems for a set, map for a dict, atom for an int, a str, None)
PyVal(t, items, elems, map, atom) ==
  [t |-> t, items |-> items, elems |-> elems, map |-> map, atom |-> atom]

NoMap == [k \in {} |-> ""]
VNone == PyVal("NoneType", <<>>, {}, NoMap, PyNone)
VTuple(s) == PyVal("tuple", s, {}, NoMap, "")
VList(s) == PyVal("list", s, {}, NoMap, "")
VSet(S) == PyVal("set", <<>>, S, NoMap, "")
VDict(f) == PyVal("dict", <<>>, {}, f, "")
VInt(a) == PyVal("int", <<>>, {}, NoMap, a)
VStr(a) == PyVal("str", <<>>, {}, NoMap, a)

\* typerule.split("[", 1): the sequence type of a rule, "" for a rule
\* without brackets
SeqType(typerule) ==
  CASE typerule \in {"tuple[str]", "tuple[int]"} -> "tuple"
    [] typerule = "list[str]" -> "list"
    [] typerule = "set[str]" -> "set"
    [] typerule = "dict[str, str]" -> "dict"
    [] OTHER -> ""

\* the element type of a sequence rule; a dict rule has a key type and a
\* value type (elemtype.split(',', 1))
ElemType(typerule) == IF typerule = "tuple[int]" THEN "int" ELSE "str"
DictKeyType(typerule) == "str"
DictValueType(typerule) == "str"

\* the elements a for loop over a container sees
ElemsOf(value) ==
  CASE value.t \in {"tuple", "list"} -> Range(value.items)
    [] value.t = "set" -> value.elems
    [] OTHER -> {}

\* conformance(value, typerule) of conforms_typerule: "true" or "false",
\* or the exception it raises.  A dict rule calls value.keys() without
\* looking at the type of value first; isinstance(value, int) is also true
\* of a bool
conformance(value, typerule) ==
  IF SeqType(typerule) = "dict"
  THEN IF value.t # "dict" THEN "AttributeError"
       ELSE IF /\ \A k \in DOMAIN value.map :
                    conforms_typerule(k, DictKeyType(typerule))
               /\ \A k \in DOMAIN value.map :
                    conforms_typerule(value.map[k], DictValueType(typerule))
            THEN "true" ELSE "false"
  ELSE IF SeqType(typerule) # ""
  THEN IF /\ value.t = SeqType(typerule)
          /\ \A e \in ElemsOf(value) : conforms_typerule(e, ElemType(typerule))
       THEN "true" ELSE "false"
  ELSE IF typerule = "int"
  THEN IF value.t \in {"int", "bool"} THEN "true" ELSE "false"
  ELSE IF value.t = typerule THEN "true" ELSE "false"

\* ------------------------------------------------------------ MetaTemplate
\* the outcome of a call on an object: "ok" or the exception raised, and
\* the object after the call
Outcome(err, obj) == [err |-> err, obj |-> obj]

NoCall == [name |-> "__init__", key |-> "", value |-> VNone, result |-> "ok",
           before |-> VNone]

NoSpecs == [k \in {} |-> [typerule |-> "", required |-> FALSE,
                          default |-> VNone]]

\* MetaTemplate(template_keys): no typespec, not frozen.  was_frozen and
\* at_freeze remember whether frozen has ever been true and the typespecs
\* of that moment
MetaTemplateNew(template_keys) ==
  [template_keys |-> template_keys, metadata |-> NoSpecs, frozen |-> FALSE,
   call |-> NoCall, was_frozen |-> FALSE, at_freeze |-> NoSpecs]

is_template_filled(t) ==
  \A i \in 1..Len(t.template_keys) : t.template_keys[i] \in DOMAIN t.metadata

\* the frozen setter that freezes whatever the template holds
frozen_setter_unchecked(t, frozen_state) ==
  Outcome("ok", [t EXCEPT !.frozen = frozen_state])

\* the frozen setter
frozen_setter(t, frozen_state) ==
  IF frozen_state
  THEN IF is_template_filled(t)
       THEN Outcome("ok", [t EXCEPT !.frozen = TRUE])
       ELSE Outcome("TypeError", t)
  ELSE Outcome("ok", [t EXCEPT !.frozen = FALSE])

\* dict[key] = value
SetItem(d, key, value) ==
  [k \in (DOMAIN d) \cup {key} |-> IF k = key THEN value ELSE d[k]]

\* del dict[key]
DelItem(d, key) == [k \in (DOMAIN d) \ {key} |-> d[k]]

\* add_typespec that leaves the frozen test out
add_typespec_unguarded(t, key, typerule, required, default) ==
  IF key \notin Range(t.template_keys)
  THEN Outcome("ValueError", t)
  ELSE Outcome("ok", [t EXCEPT !.metadata =
         SetItem(@, key, [typerule |-> typerule, required |-> required,
                          default |-> default])])

add_typespec(t, key, typerule, required, default) ==
  IF ~t.frozen
  THEN IF key \notin Range(t.template_keys)
       THEN Outcome("ValueError", t)
       ELSE Outcome("ok", [t EXCEPT !.metadata =
              SetItem(@, key, [typerule |-> typerule, required |-> required,
                               default |-> default])])
  ELSE Outcome("TypeError", t)

delete_typespec(t, key) ==
  IF ~t.frozen
  THEN IF key \notin DOMAIN t.metadata
       THEN Outcome("KeyError", t)
       ELSE Outcome("ok", [t EXCEPT !.metadata = DelItem(@, key)])
  ELSE Outcome("TypeError", t)

get_typerule(t, key) == t.metadata[key].typerule
get_required(t, key) == t.metadata[key].required
get_default(t, key) == t.metadata[key].default

\* the class attribute template_keys of MetaDatabaseTemplate and of
\* MetaTableTemplate: key, type rule, required, default
DatabaseTemplateKeys ==
  << <<"name", "str", TRUE, VNone>>,
     <<"tables", "tuple[str]", TRUE, VNone>>,
     <<"collections", "tuple[str]", TRUE, VNone>>,
     <<"created", "datetime_second", TRUE, VNone>>,
     <<"last_modified", "datetime_second", TRUE, VNone>>,
     <<"total_table_records", "int", TRUE, VInt("0")>>,
     <<"total_documents", "int", TRUE, VInt("0")>>,
     <<"database_directory", "str", TRUE, VNone>>,
     <<"database_root_directory", "str", TRUE, VNone>>,
     <<"database_meta_location", "str", TRUE, VNone>>,
     <<"database_data_root_directory", "str", TRUE, VNone>>,
     <<"table_meta_locations", "dict[str, str]", TRUE, VNone>>,
     <<"collection_meta_locations", "dict[str, str]", TRUE, VNone>> >>

TableTemplateKeys ==
  << <<"name", "str", TRUE, VNone>>,
     <<"created", "datetime_second", TRUE, VNone>>,
     <<"last_modified", "datetime_second", TRUE, VNone>>,
     <<"columns", "tuple[str]", TRUE, VNone>>,
     <<"datatypes", "tuple[str]", TRUE, VNone>>,
     <<"keys", "tuple[str]", TRUE, VNone>>,
     <<"foreign", "dict[str, str]", FALSE, VNone>>,
     <<"enforce_integrity", "bool", TRUE, VNone>>,
     <<"nrecords", "int", TRUE, VNone>>,
     <<"database_directory", "str", TRUE, VNone>>,
     <<"table_directory", "str", TRUE, VNone>>,
     <<"index_file_location", "str", TRUE, VNone>>,
     <<"meta_file_location", "str", TRUE, VNone>>,
     <<"storage_type", "str", TRUE, VNone>>,
     <<"splice_keys", "tuple[str]", FALSE, VNone>> >>

\* the loop of a template subclass's __init__: add_typespec for every row
RECURSIVE AddTypespecs(_, _)
AddTypespecs(t, rows) ==
  IF rows = <<>> THEN t
  ELSE AddTypespecs(add_typespec(t, Head(rows)[1], Head(rows)[2],
                                 Head(rows)[3], Head(rows)[4]).obj,
                    Tail(rows))

\* a template built the way MetaDatabaseTemplate.__init__ and
\* MetaTableTemplate.__init__ build theirs: the keys of the rows, a
\* typespec for each row, then frozen = True
Freeze(t) ==
  LET r == frozen_setter(t, TRUE)
  IN [r.obj EXCEPT !.was_frozen = r.obj.frozen,
                   !.at_freeze = IF r.obj.frozen THEN r.obj.metadata
                                 ELSE NoSpecs]

TemplateOf(rows) ==
  Freeze(AddTypespecs(
    MetaTemplateNew([i \in 1..Len(rows) |-> rows[i][1]]), rows))

MetaDatabaseTemplate == TemplateOf(DatabaseTemplateKeys)
MetaTableTemplate == TemplateOf(TableTemplateKeys)

\* -------------------------------------------------------------- Meta objects
\* Meta(template): every field at its template default, no field edited.
\* ever_set remembers the fields a successful edit or replace has stored
\* into, ncalls counts the calls made on the object
MetaNew(t) ==
  [metadata |-> [k \in DOMAIN t.metadata |-> t.metadata[k].default],
   keys_edited |-> [k \in DOMAIN t.metadata |-> FALSE],
   ever_set |-> [k \in DOMAIN t.metadata |-> FALSE],
   call |-> NoCall, ncalls |-> 0]

is_valid(m) == \A k \in DOMAIN m.keys_edited : m.keys_edited[k]

\* the metadata property, which __getitem__ and write read
metadata_accessor(m) ==
  IF is_valid(m) THEN Outcome("ok", m) ELSE Outcome("KeyError", m)

\* self._metadata[key] = value; self._keys_edited[key] = True
Store(m, key, value) ==
  Outcome("ok", [m EXCEPT !.metadata[key] = value,
                          !.keys_edited[key] = TRUE,
                          !.ever_set[key] = TRUE])

\* Meta.replace
MetaReplace(t, m, key, value) ==
  IF key \notin DOMAIN m.metadata THEN Outcome("KeyError", m)
  ELSE LET c == conformance(value, get_typerule(t, key))
       IN IF c = "AttributeError" THEN Outcome("AttributeError", m)
          ELSE IF c = "false" THEN Outcome("TypeError", m)
          ELSE Store(m, key, value)

\* set.union(value) returns the union
SetUnion(currvalue, value) == currvalue \cup value

\* what a set field holds after Meta.edit ran
\* self._metadata[key].union(value): the set the call returns is dropped
EditSet(currvalue, value) == currvalue

\* the merge of Meta.edit into a field whose rule has brackets; value None
\* gets here for a field that is not required, and tuple + None,
\* list.extend(None), set.union(None) and dict.update(None) raise TypeError
EditContainer(m, key, rootstruct, value) ==
  LET currvalue == m.metadata[key]
      isnone == value.t = "NoneType"
  IN IF rootstruct = "list" /\ currvalue.t = "list"
     THEN IF isnone THEN Outcome("TypeError", m)
          ELSE Store(m, key, VList(currvalue.items \o value.items))
     ELSE IF rootstruct = "tuple" /\ currvalue.t = "tuple"
     THEN IF isnone THEN Outcome("TypeError", m)
          ELSE Store(m, key, VTuple(EditTuple(currvalue.items, value.items)))
     ELSE IF rootstruct = "set" /\ currvalue.t = "set"
     THEN IF isnone THEN Outcome("TypeError", m)
          ELSE Store(m, key, VSet(EditSet(currvalue.elems, value.elems)))
     ELSE IF rootstruct = "dict" /\ currvalue.t = "dict"
     THEN IF isnone THEN Outcome("TypeError", m)
          ELSE Store(m, key, VDict(EditDict(currvalue.map, value.map)))
     ELSE IF rootstruct \in {"list", "tuple", "set", "dict"}
     THEN Store(m, key, value)
     ELSE Outcome("TypeError", m)

\* Meta.edit: None passes the type test of a field that is not required
MetaEdit(t, m, key, value) ==
  IF key \notin DOMAIN m.metadata THEN Outcome("KeyError", m)
  ELSE LET typerule == get_typerule(t, key)
           c == IF ~get_required(t, key) /\ value.t = "NoneType"
                THEN "true" ELSE conformance(value, typerule)
       IN IF c = "AttributeError" THEN Outcome("AttributeError", m)
          ELSE IF c = "false" THEN Outcome("TypeError", m)
          ELSE IF SeqType(typerule) # ""
          THEN EditContainer(m, key, SeqType(typerule), value)
          ELSE Store(m, key, value)

\* a reset that also takes the edited flag back
MetaResetClearsFlag(t, m, key) ==
  IF key \notin Range(t.template_keys) THEN Outcome("KeyError", m)
  ELSE Outcome("ok", [m EXCEPT !.metadata[key] = get_default(t, key),
                               !.keys_edited[key] = FALSE])

\* Meta.reset: get_default raises KeyError for a key the template lacks
MetaReset(t, m, key) ==
  IF key \notin Range(t.template_keys) THEN Outcome("KeyError", m)
  ELSE Outcome("ok", [m EXCEPT !.metadata[key] = get_default(t, key)])

\* Meta(template, metadata): an edit per item of metadata
RECURSIVE MetaEdits(_, _, _)
MetaEdits(t, m, items) ==
  IF items = <<>> THEN m
  ELSE MetaEdits(t, MetaEdit(t, m, Head(items)[1], Head(items)[2]).obj,
                 Tail(items))

\* a template with a field of every kind Meta.edit tells apart: a tuple, a
\* dict that is not required, a set and an int
FieldTemplateKeys ==
  << <<"tup", "tuple[str]", TRUE, VNone>>,
     <<"dic", "dict[str, str]", FALSE, VNone>>,
     <<"st", "set[str]", TRUE, VNone>>,
     <<"num", "int", TRUE, VInt("0")>> >>

FieldTemplate == TemplateOf(FieldTemplateKeys)

\* init_database followed by DatabaseManager(dbpath): the manager's Meta
\* over a MetaDatabaseTemplate
Init ==
  /\ InitStore
  /\ template = MetaDatabaseTemplate
  /\ metaobj = MetaNew(template)
  /\ checked = NoCheck

\* ------------------------------------------------------ calls on a Meta
MetaCall(name, key, value, r) ==
  [r.obj EXCEPT !.call = [name |-> name, key |-> key, value |-> value,
                          result |-> r.err,
                          before |-> IF key \in DOMAIN metaobj.metadata
                                     THEN metaobj.metadata[key] ELSE VNone],
                !.ncalls = metaobj.ncalls + 1]

Edit(key, value) ==
  /\ metaobj' = MetaCall("edit", key, value,
                         MetaEdit(template, metaobj, key, value))
  /\ UNCHANGED <<storeVars, template, checked>>

Replace(key, value) ==
  /\ metaobj' = MetaCall("replace", key, value,
                         MetaReplace(template, metaobj, key, value))
  /\ UNCHANGED <<storeVars, template, checked>>

Reset(key) ==
  /\ metaobj' = MetaCall("reset", key, VNone,
                         MetaReset(template, metaobj, key))
  /\ UNCHANGED <<storeVars, template, checked>>

\* reading the metadata property
Metadata ==
  /\ metaobj' = MetaCall("metadata", "", VNone, metadata_accessor(metaobj))
  /\ UNCHANGED <<storeVars, template, checked>>

\* -------------------------------------------------- calls on a MetaTemplate
TemplateCall(name, key, r) ==
  [r.obj EXCEPT !.call = [name |-> name, key |-> key, value |-> VNone,
                          result |-> r.err, before |-> VNone],
                !.was_frozen = template.was_frozen \/ r.obj.frozen,
                !.at_freeze = IF ~template.was_frozen /\ r.obj.frozen
                              THEN r.obj.metadata ELSE template.at_freeze]

AddTypespec(key, typerule, required, default) ==
  /\ template' = TemplateCall("add_typespec", key,
                   add_typespec(template, key, typerule, required, default))
  /\ UNCHANGED <<storeVars, metaobj, checked>>

DeleteTypespec(key) ==
  /\ template' = TemplateCall("delete_typespec", key,
                              delete_typespec(template, key))
  /\ UNCHANGED <<storeVars, metaobj, checked>>

\* template.frozen = frozen_state
SetFrozen(frozen_state) ==
  /\ template' = TemplateCall(IF frozen_state THEN "freeze" ELSE "unfreeze",
                              "", frozen_setter(template, frozen_state))
  /\ UNCHANGED <<storeVars, metaobj, checked>>

\* --------------------------------------------------------- DatabaseManager
\* a create_table that forgets the storage_type test
CreateTableRejectsNameOnly(name, storage_type) ==
  name \in Range(dbmeta.tables)

\* create_table, lines 82-87: the two up-front rejections
CreateTableRejects(name, storage_type) ==
  \/ name \in Range(dbmeta.tables)
  \/ storage_type \notin ValidStorageTypes

\* create_table, lines 95-126: the table Meta it builds
NewTableMetaOf(name, columns, datatypes, keys, storage_type, splice_keys, nowtime) ==
  [name |-> name, created |-> nowtime, last_modified |-> nowtime,
   columns |-> columns, datatypes |-> datatypes, keys |-> keys,
   enforce_integrity |-> TRUE, nrecords |-> 0,
   storage_type |-> storage_type, foreign |-> NoneT,
   splice_keys |-> splice_keys]

\* the table Meta of a table with the columns of the model's schema
NewTableMeta(name, keys, storage_type, splice_keys, nowtime) ==
  NewTableMetaOf(name, Columns, Datatypes, keys, storage_type, splice_keys,
                 nowtime)

\* create_table, lines 130-135: the class of the instance it builds
VariantCreated(storage_type) ==
  IF storage_type = "spliced" THEN "TableSpliced" ELSE "TableMonolithic"

\* create_table, lines 141-144: the edits of the database Meta
CreateTableDbEdits(m, name, nowtime) ==
  [m EXCEPT !.tables = EditTuple(@, <<name>>),
            !.last_modified = nowtime,
            !.table_meta_locations =
               EditDict(@, [k \in {name} |-> MetaFileLocation(name)])]

CreateTableOf(name, columns, datatypes, keys, storage_type, splice_keys) ==
  /\ frame.pc = "idle"
  /\ UNCHANGED objVars
  /\ now' = now + 1
  /\ UNCHANGED <<dbmeta_file, pool, jobs, frame>>
  /\ LET op(r) == [MkOp("create_table", name, r) EXCEPT
                     !.storage_type = storage_type,
                     !.splice_keys = splice_keys]
         nowtime == utcnow(now + 1)
         tblmeta == NewTableMetaOf(name, columns, datatypes, keys,
                                   storage_type, splice_keys, nowtime)
         dir == [NoDir EXCEPT !.exists = TRUE, !.has_meta = TRUE,
                              !.metadata = TblMetaToJson(tblmeta)]
     IN IF CreateTableRejects(name, storage_type)
        THEN /\ lastOp' = op("ValueError")
             /\ UNCHANGED <<dbmeta, fs, tbl>>
        ELSE IF fs[name].exists
        THEN \* os.mkdir on a directory left by a failed create_table
             /\ lastOp' = op("FileExistsError")
             /\ UNCHANGED <<dbmeta, fs, tbl>>
        ELSE IF storage_type = "spliced" /\ splice_keys.none
        THEN \* TableSpliced.__init__ iterates over splice_keys = None
             /\ fs' = [fs EXCEPT ![name] = dir]
             /\ lastOp' = op("TypeError")
             /\ UNCHANGED <<dbmeta, tbl>>
        ELSE /\ fs' = [fs EXCEPT ![name] = dir]
             /\ tbl' = [tbl EXCEPT ![name] =
                          [NoTable EXCEPT !.live = TRUE,
                                          !.variant = VariantCreated(storage_type),
                                          !.meta = tblmeta]]
             /\ dbmeta' = CreateTableDbEdits(dbmeta, name, nowtime)
             /\ lastOp' = op("ok")

\* create_table for a table with the columns of the model's schema
CreateTable(name, keys, storage_type, splice_keys) ==
  CreateTableOf(name, Columns, Datatypes, keys, storage_type, splice_keys)

\* _load_tblmeta: metadata.json decoded and converted field by field; the
\* splice_keys field is converted with tuple(), which raises on null
load_tblmeta(n) ==
  LET j == fs[n].metadata
  IN IF j.splice_keys.j = "null"
     THEN [err |-> "TypeError", meta |-> NoMeta]
     ELSE [err |-> "ok",
           meta |-> [name |-> j.name,
                     created |-> ParseDatetime(j.created),
                     last_modified |-> ParseDatetime(j.last_modified),
                     columns |-> j.columns.items,
                     datatypes |-> j.datatypes.items,
                     keys |-> j.keys.items,
                     enforce_integrity |-> j.enforce_integrity,
                     nrecords |-> j.nrecords,
                     storage_type |-> j.storage_type,
                     foreign |-> SomeT(<<>>),
                     splice_keys |-> SomeT(j.splice_keys.items)]]

\* get_table, lines 154-161: the class dispatched on storage_type; no
\* branch assigns tblinstance for any other storage type
VariantLoaded(storage_type) ==
  IF storage_type = "monolithic" THEN "TableMonolithic"
  ELSE IF storage_type = "spliced" THEN "TableSpliced"
  ELSE "UnboundLocalError"

GetTable(name) ==
  /\ frame.pc = "idle"
  /\ UNCHANGED objVars
  /\ UNCHANGED <<dbmeta, dbmeta_file, fs, tbl, pool, jobs, frame, now>>
  /\ LET op(r) == MkOp("get_table", name, r)
         loaded == load_tblmeta(name)
         variant == VariantLoaded(loaded.meta.storage_type)
     IN IF name \notin DirTables
        THEN lastOp' = op("ValueError")
        ELSE IF loaded.err # "ok"
        THEN lastOp' = op(loaded.err)
        ELSE IF variant = "UnboundLocalError"
        THEN lastOp' = op("UnboundLocalError")
        ELSE lastOp' = [op("ok") EXCEPT !.ret =
                          [variant |-> variant,
                           columns |-> loaded.meta.columns,
                           datatypes |-> loaded.meta.datatypes,
                           keys |-> loaded.meta.keys,
                           nrecords |-> loaded.meta.nrecords]]

\* delete_table, lines 173-180: the edits of the database Meta
DeleteTableDbEdits(m, name, tbl_nrecords, nowtime) ==
  [m EXCEPT !.tables = EditTuple(@, SelectSeq(@, LAMBDA i : i # name)),
            !.last_modified = nowtime,
            !.total_table_records = @ - tbl_nrecords]

DeleteTable(name) ==
  /\ frame.pc = "idle"
  /\ UNCHANGED objVars
  /\ now' = now + 1
  /\ UNCHANGED <<dbmeta_file, tbl, pool, jobs, frame>>
  /\ LET op(r) == MkOp("delete_table", name, r)
         loaded == load_tblmeta(name)
     IN IF name \notin DirTables
        THEN lastOp' = op("ValueError") /\ UNCHANGED <<dbmeta, fs>>
        ELSE IF loaded.err # "ok"
        THEN lastOp' = op(loaded.err) /\ UNCHANGED <<dbmeta, fs>>
        ELSE /\ fs' = [fs EXCEPT ![name] = NoDir]
             /\ dbmeta' = DeleteTableDbEdits(dbmeta, name,
                                             loaded.meta.nrecords, utcnow(now + 1))
             /\ lastOp' = op("ok")

\* ------------------------------------------------------ TableMonolithic.add
\* table.meta.replace('enforce_integrity', value): Meta.replace stores a
\* bool under the key in the instance's Meta; the meta file is not written
SetEnforceIntegrity(n, value) ==
  /\ frame.pc = "idle"
  /\ UNCHANGED objVars
  /\ tbl[n].live
  /\ now' = now + 1
  /\ tbl' = [tbl EXCEPT ![n].meta.enforce_integrity = value]
  /\ lastOp' = MkOp("replace", n, "ok")
  /\ UNCHANGED <<dbmeta, dbmeta_file, fs, pool, jobs, frame>>

\* lines 449-451: total_table_records grows by the length of the batch
AddDbEdits(m, records, nowtime) ==
  [m EXCEPT !.total_table_records = @ + Len(records),
            !.last_modified = nowtime]

\* _save_records of TableMonolithic: nothing is written for an empty list
MonoSaveRecords(n, files, records) ==
  IF records = <<>> THEN files
  ELSE [f \in (DOMAIN files) \cup {MonoFilename(n)} |->
          IF f = MonoFilename(n) THEN DumpRecords(records) ELSE files[f]]

\* the persistence of add written from the last step to the first
MonoPersistStepsReversed(records) ==
  <<"index_file">>
    \o (IF records = <<>> THEN <<>> ELSE <<"records_file">>)
    \o <<"dbmeta_file", "tblmeta_file">>

\* lines 444-457 of TableMonolithic.add in the order they run: the table
\* meta file, the database meta file, _save_records (which writes nothing
\* for an empty list), _save_index
MonoPersistSteps(records) ==
  <<"tblmeta_file", "dbmeta_file">>
    \o (IF records = <<>> THEN <<>> ELSE <<"records_file">>)
    \o <<"index_file">>

AddMonolithic(n, records, integrity_method) ==
  /\ frame.pc = "idle"
  /\ UNCHANGED objVars
  /\ tbl[n].live
  /\ tbl[n].variant = "TableMonolithic"
  /\ now' = now + 1
  /\ UNCHANGED <<pool, jobs, frame>>
  /\ LET t == tbl[n]
         op(r) == [MkOp("add", n, r) EXCEPT !.records = records,
                                            !.method = integrity_method,
                                            !.empty_before = (t.records = <<>>)]
         chk == new_records_checks(records, t.meta.columns, t.meta.datatypes)
         st0 == [records |-> t.records, index |-> t.index, err |-> "ok",
                 steps |-> <<"validate">>]
         st == IF t.meta.enforce_integrity
               THEN MonoInsert(t.meta, st0, records, 1, integrity_method)
               ELSE MonoExtend(t.meta, st0, records)
         meta2 == [t.meta EXCEPT !.nrecords = Len(st.records),
                                 !.last_modified = utcnow(now + 1)]
         db2 == AddDbEdits(dbmeta, records, utcnow(now + 1))
     IN IF chk # "ok"
        THEN /\ lastOp' = [op(chk) EXCEPT !.steps = <<"validate">>]
             /\ UNCHANGED <<dbmeta, dbmeta_file, fs, tbl>>
        ELSE IF st.err # "ok"
        THEN \* raised inside the insertion loop
             /\ tbl' = [tbl EXCEPT ![n].records = st.records,
                                   ![n].index = st.index]
             /\ lastOp' = [op(st.err) EXCEPT !.steps = st.steps]
             /\ UNCHANGED <<dbmeta, dbmeta_file, fs>>
        ELSE IF ~fs[n].exists
        THEN \* meta.write into the directory delete_table removed
             /\ tbl' = [tbl EXCEPT ![n].records = st.records,
                                   ![n].index = st.index,
                                   ![n].meta = meta2]
             /\ lastOp' = [op("FileNotFoundError") EXCEPT !.steps = st.steps]
             /\ UNCHANGED <<dbmeta, dbmeta_file, fs>>
        ELSE /\ tbl' = [tbl EXCEPT ![n].records = st.records,
                                   ![n].index = st.index,
                                   ![n].meta = meta2]
             /\ dbmeta' = db2
             /\ dbmeta_file' = DbMetaToJson(db2)
             /\ fs' = [fs EXCEPT ![n].metadata = TblMetaToJson(meta2),
                                 ![n].recs = MonoSaveRecords(n, @, st.records),
                                 ![n].index = st.index,
                                 ![n].has_index = TRUE]
             /\ lastOp' = [op("ok") EXCEPT
                             !.steps = st.steps \o MonoPersistSteps(st.records)]

\* --------------------------------------------------------- TableSpliced.add
\* lines 597-614: what the integrity check decides for one splice group:
\* "raise", "skip" (continue) or "take"
SplicedIntegrity(meta, existing_recs, spliced_records, integrity_method) ==
  LET new_keys == {keys_getter(meta, spliced_records[i]) :
                     i \in 1..Len(spliced_records)}
      existing_keys == {keys_getter(meta, existing_recs[i]) :
                          i \in 1..Len(existing_recs)}
      clash == \/ Len(spliced_records) # Cardinality(new_keys)
               \/ new_keys \cap existing_keys # {}
  IN IF ~meta.enforce_integrity \/ ~clash THEN "take"
     ELSE IF integrity_method = "raise" THEN "raise"
     ELSE "skip"

\* _update_index of TableSpliced: a splice key gets its file path once
SplicedUpdateIndex(meta, index, records) ==
  LET groups == splice_grouper(meta, records)
      ks == {groups[g].key : g \in 1..Len(groups)}
  IN [k \in (DOMAIN index) \cup ks |->
        IF k \in DOMAIN index THEN index[k] ELSE SplicedFilename(k)]

\* a batch record has the key-tuple and the splice key of a record an
\* earlier add call accepted
Collides(meta, accepted, records) ==
  \E i \in 1..Len(records) : \E a \in accepted :
    /\ Len(records[i]) = Len(meta.columns)
    /\ keys_getter(meta, records[i]) = keys_getter(meta, a)
    /\ splice_key_getter(meta, records[i]) = splice_key_getter(meta, a)

\* lines 588-592: validation, self._records = list(), the sort of the batch
AddSplicedBegin(n, records, integrity_method) ==
  /\ frame.pc = "idle"
  /\ UNCHANGED objVars
  /\ tbl[n].live
  /\ tbl[n].variant = "TableSpliced"
  /\ UNCHANGED <<dbmeta, dbmeta_file, fs, pool, jobs>>
  /\ LET t == tbl[n]
         chk == new_records_checks(records, t.meta.columns, t.meta.datatypes)
         collides == chk = "ok" /\ Collides(t.meta, t.accepted, records)
         empty == t.meta.nrecords = 0 /\ DOMAIN t.index = {}
         op(r) == [MkOp("add", n, r) EXCEPT !.records = records,
                                            !.method = integrity_method,
                                            !.empty_before = empty,
                                            !.collides = collides]
     IN IF chk # "ok"
        THEN /\ lastOp' = [op(chk) EXCEPT !.steps = <<"validate">>]
             /\ now' = now + 1
             /\ UNCHANGED <<tbl, frame>>
        ELSE IF SortRaises(t.meta, records)
        THEN /\ tbl' = [tbl EXCEPT ![n].records = <<>>]
             /\ lastOp' = [op("TypeError") EXCEPT
                             !.steps = <<"validate", "records">>]
             /\ now' = now + 1
             /\ UNCHANGED frame
        ELSE /\ tbl' = [tbl EXCEPT ![n].records = <<>>]
             /\ frame' = [IdleFrame EXCEPT
                            !.pc = "load", !.table = n, !.records = records,
                            !.method = integrity_method,
                            !.groups = splice_grouper(t.meta, records),
                            !.empty_before = empty, !.collides = collides,
                            !.steps = <<"validate", "records">>]
             /\ UNCHANGED <<lastOp, now>>

FrameOp(result) ==
  [MkOp("add", frame.table, result) EXCEPT
     !.records = frame.records, !.method = frame.method,
     !.empty_before = frame.empty_before, !.collides = frame.collides,
     !.steps = frame.steps]

\* lines 592-618: one turn of the loop over the splice groups
AddSplicedLoad ==
  /\ frame.pc = "load"
  /\ UNCHANGED objVars
  /\ frame.i <= Len(frame.groups)
  /\ UNCHANGED <<dbmeta, dbmeta_file, fs, pool, jobs>>
  /\ LET n == frame.table
         g == frame.groups[frame.i]
         existing_recs == load_records(n, g.key)
         verdict == SplicedIntegrity(tbl[n].meta, existing_recs, g.recs,
                                     frame.method)
     IN IF verdict = "raise"
        THEN /\ lastOp' = FrameOp("IndexError")
             /\ now' = now + 1
             /\ frame' = IdleFrame
             /\ UNCHANGED tbl
        ELSE IF verdict = "skip"
        THEN /\ frame' = [frame EXCEPT !.i = @ + 1]
             /\ UNCHANGED <<tbl, lastOp, now>>
        ELSE /\ tbl' = [tbl EXCEPT ![n].records = @ \o existing_recs \o g.recs]
             /\ frame' = [frame EXCEPT !.i = @ + 1,
                                       !.num_new_recs = @ + Len(g.recs),
                                       !.accepted = @ \cup Range(g.recs),
                                       !.steps = Append(@, "records"),
                                       !.taken = @ \o g.recs]
             /\ UNCHANGED <<lastOp, now>>

\* lines 620-633 of TableSpliced.add in the order they run: _update_index,
\* the table meta file, the database meta file
SplicedMetaSteps == <<"index", "tblmeta_file", "dbmeta_file">>

\* lines 620-633: the index, the table Meta and the database Meta
AddSplicedMeta ==
  /\ frame.pc = "load"
  /\ UNCHANGED objVars
  /\ frame.i > Len(frame.groups)
  /\ UNCHANGED <<pool, jobs>>
  /\ LET n == frame.table
         t == tbl[n]
         index2 == SplicedUpdateIndex(t.meta, t.index, t.records)
         meta2 == [t.meta EXCEPT !.nrecords = @ + frame.num_new_recs,
                                 !.last_modified = utcnow(now + 1)]
         db2 == AddDbEdits(dbmeta, frame.records, utcnow(now + 1))
     IN IF t.records = <<>>
        THEN \* _update_index: "Internal records is empty"
             /\ lastOp' = FrameOp("ValueError")
             /\ now' = now + 1
             /\ frame' = IdleFrame
             /\ UNCHANGED <<dbmeta, dbmeta_file, fs, tbl>>
        ELSE IF ~fs[n].exists
        THEN /\ tbl' = [tbl EXCEPT ![n].index = index2, ![n].meta = meta2]
             /\ lastOp' = [FrameOp("FileNotFoundError") EXCEPT
                             !.steps = Append(@, "index")]
             /\ now' = now + 1
             /\ frame' = IdleFrame
             /\ UNCHANGED <<dbmeta, dbmeta_file, fs>>
        ELSE /\ tbl' = [tbl EXCEPT ![n].index = index2, ![n].meta = meta2]
             /\ dbmeta' = db2
             /\ dbmeta_file' = DbMetaToJson(db2)
             /\ fs' = [fs EXCEPT ![n].metadata = TblMetaToJson(meta2)]
             /\ frame' = [frame EXCEPT
                            !.pc = "save", !.i = 1,
                            !.groups = splice_grouper(t.meta, t.records),
                            !.steps = @ \o SplicedMetaSteps]
             /\ UNCHANGED <<lastOp, now>>

\* a queue without a capacity
QueueNeverFull(q) == FALSE

\* queue.Queue(num_threads), line 689: put blocks while the queue holds
\* maxsize items
QueueFull(q) == Len(q) >= NumThreads

\* _save_records, lines 561-569: one turn of the loop; add_package blocks
\* while the queue holds num_threads packages
AddSplicedSave ==
  /\ frame.pc = "save"
  /\ UNCHANGED objVars
  /\ frame.i <= Len(frame.groups)
  /\ ~QueueFull(pool[frame.table].queue)
  /\ UNCHANGED <<dbmeta, dbmeta_file, fs, tbl, now, lastOp>>
  /\ LET n == frame.table
         g == frame.groups[frame.i]
         filepath == SplicedFilename(g.key)
         existing_recs == load_records_by_path(n, filepath) \o g.recs
         job == [table |-> n, filepath |-> filepath, records |-> existing_recs,
                 invoked |-> 0, finished |-> FALSE, raised |-> FALSE]
     IN /\ jobs' = Append(jobs, job)
        /\ pool' = [pool EXCEPT ![n].queue = Append(@, Len(jobs) + 1),
                                ![n].unfinished = @ + 1]
        /\ frame' = [frame EXCEPT !.i = @ + 1, !.steps = Append(@, "enqueue")]

\* line 636 and the return: _save_index
AddSplicedReturn ==
  /\ frame.pc = "save"
  /\ UNCHANGED objVars
  /\ frame.i > Len(frame.groups)
  /\ UNCHANGED <<dbmeta, dbmeta_file, pool, jobs>>
  /\ LET n == frame.table
         fresh == /\ lastOp.name = "create_table"
                  /\ lastOp.table = n
                  /\ lastOp.result = "ok"
                  /\ \A id \in 1..(Len(jobs) - Len(frame.groups)) :
                       jobs[id].finished
         follows == /\ lastOp.name = "add"
                    /\ lastOp.table = n
                    /\ lastOp.result = "ok"
                    /\ lastOp.chain
     IN /\ fs' = [fs EXCEPT ![n].index = tbl[n].index, ![n].has_index = TRUE]
        /\ tbl' = [tbl EXCEPT ![n].accepted = @ \cup frame.accepted]
        /\ lastOp' = [FrameOp("ok") EXCEPT
                        !.steps = Append(@, "index_file"),
                        !.chain = fresh \/ follows,
                        !.run = IF follows THEN lastOp.run \o frame.taken
                                ELSE frame.taken]
        /\ now' = now + 1
        /\ frame' = IdleFrame

\* --------------------------------------------------------- ThreadPoolQueue
\* a worker that marks the package done as soon as it has taken it
WorkerGetMarksDone(n, w) ==
  /\ pool[n].workers[w].st = "idle"
  /\ UNCHANGED objVars
  /\ pool[n].queue # <<>>
  /\ pool' = [pool EXCEPT ![n].queue = Tail(@),
                          ![n].unfinished = @ - 1,
                          ![n].workers[w] = [st |-> "got", job |-> Head(pool[n].queue)]]
  /\ UNCHANGED <<dbmeta, dbmeta_file, fs, tbl, jobs, frame, now, lastOp>>

\* PackageWorker.run, line 673: self._package_queue.get()
WorkerGet(n, w) ==
  /\ pool[n].workers[w].st = "idle"
  /\ UNCHANGED objVars
  /\ pool[n].queue # <<>>
  /\ pool' = [pool EXCEPT ![n].queue = Tail(@),
                          ![n].workers[w] = [st |-> "got", job |-> Head(pool[n].queue)]]
  /\ UNCHANGED <<dbmeta, dbmeta_file, fs, tbl, jobs, frame, now, lastOp>>

\* record_writer: open(filepath, 'w') raises when the table directory is
\* gone, else the file holds the dumped records
record_writer(files, records, filepath) ==
  [f \in (DOMAIN files) \cup {filepath} |->
     IF f = filepath THEN DumpRecords(records) ELSE files[f]]

\* PackageWorker.run, lines 675-681: the callable is invoked and whatever
\* it raises is swallowed
WorkerRun(n, w) ==
  /\ pool[n].workers[w].st = "got"
  /\ UNCHANGED objVars
  /\ LET id == pool[n].workers[w].job
         job == jobs[id]
     IN IF fs[job.table].exists
        THEN /\ fs' = [fs EXCEPT ![job.table].recs =
                         record_writer(@, job.records, job.filepath)]
             /\ jobs' = [jobs EXCEPT ![id].invoked = @ + 1]
        ELSE /\ jobs' = [jobs EXCEPT ![id].invoked = @ + 1,
                                     ![id].raised = TRUE]
             /\ UNCHANGED fs
  /\ pool' = [pool EXCEPT ![n].workers[w].st = "ran"]
  /\ UNCHANGED <<dbmeta, dbmeta_file, tbl, frame, now, lastOp>>

\* a worker whose task_done is skipped when the callable raised
WorkerDoneUnlessRaised(n, w) ==
  /\ pool[n].workers[w].st = "ran"
  /\ UNCHANGED objVars
  /\ jobs' = [jobs EXCEPT ![pool[n].workers[w].job].finished =
                 ~jobs[pool[n].workers[w].job].raised]
  /\ pool' = [pool EXCEPT ![n].workers[w] = IdleWorker,
                          ![n].unfinished =
                            IF jobs[pool[n].workers[w].job].raised THEN @ ELSE @ - 1]
  /\ UNCHANGED <<dbmeta, dbmeta_file, fs, tbl, frame, now, lastOp>>

\* PackageWorker.run, lines 683-685: finally task_done()
WorkerDone(n, w) ==
  /\ pool[n].workers[w].st = "ran"
  /\ UNCHANGED objVars
  /\ jobs' = [jobs EXCEPT ![pool[n].workers[w].job].finished = TRUE]
  /\ pool' = [pool EXCEPT ![n].workers[w] = IdleWorker,
                          ![n].unfinished = @ - 1]
  /\ UNCHANGED <<dbmeta, dbmeta_file, fs, tbl, frame, now, lastOp>>

\* wait_completion: Queue.join() returns once no task is unfinished
WaitCompletion(n) ==
  /\ frame.pc = "idle"
  /\ UNCHANGED objVars
  /\ tbl[n].live
  /\ tbl[n].variant = "TableSpliced"
  /\ pool[n].unfinished = 0
  /\ lastOp' = IF lastOp.name = "add" /\ lastOp.table = n /\ lastOp.result = "ok"
                THEN [lastOp EXCEPT !.name = "wait_completion", !.after_add = TRUE]
                ELSE MkOp("wait_completion", n, "ok")
  /\ UNCHANGED <<dbmeta, dbmeta_file, fs, tbl, pool, jobs, frame, now>>

\* wait_completion as a call that takes time: the caller enters Queue.join()
WaitCompletionCall(n) ==
  /\ frame.pc = "idle"
  /\ UNCHANGED objVars
  /\ tbl[n].live
  /\ tbl[n].variant = "TableSpliced"
  /\ frame' = [IdleFrame EXCEPT !.pc = "wait", !.table = n]
  /\ UNCHANGED <<dbmeta, dbmeta_file, fs, tbl, pool, jobs, now, lastOp>>

\* Queue.join() returns once no task is unfinished
WaitCompletionReturn ==
  /\ frame.pc = "wait"
  /\ UNCHANGED objVars
  /\ pool[frame.table].unfinished = 0
  /\ lastOp' = IF /\ lastOp.name = "add"
                  /\ lastOp.table = frame.table
                  /\ lastOp.result = "ok"
                THEN [lastOp EXCEPT !.name = "wait_completion", !.after_add = TRUE]
                ELSE MkOp("wait_completion", frame.table, "ok")
  /\ frame' = IdleFrame
  /\ UNCHANGED <<dbmeta, dbmeta_file, fs, tbl, pool, jobs, now>>

\* ------------------------------------------------------------------- inputs
SeqsUpTo(S, k) == UNION {[1..m -> S] : m \in 0..k}

ValidRecords == {<<x1, x2>> : x1 \in PyInts, x2 \in PyStrs}
NoneRecords == {<<PyNone, "a">>, <<"1", PyNone>>}
BadRecords == {<<"a", "a">>, <<"1">>, <<"1", "a", "a">>}
AllRecords ==
  {<<"1", "a">>, <<"2", "b">>} \cup NoneRecords \cup BadRecords

KeysChoices == {<<"x1">>, <<"x1", "x2">>}
SpliceChoices == {NoneT, SomeT(<<"x1">>)}
StorageTypes == ValidStorageTypes \cup {"columnar"}
Methods == {"raise", "skip"}

\* -------------------------------------------------------------------- Next
\* the database manager with tables of both kinds
DbBatches == {<<<<"1", "a">>>>, <<<<"1", "a">>, <<"1", "b">>>>}
MaxOpsDb == 3

NextDb ==
  \/ /\ now < MaxOpsDb
     /\ \E n \in TableNames, st \in StorageTypes, sk \in SpliceChoices :
          CreateTable(n, <<"x1">>, st, sk)
  \/ \E n \in TableNames : GetTable(n)
  \/ /\ now < MaxOpsDb
     /\ \E n \in TableNames : DeleteTable(n)
  \/ /\ now < MaxOpsDb
     /\ \E n \in TableNames, r \in DbBatches, m \in Methods : AddMonolithic(n, r, m)
  \/ /\ now < MaxOpsDb
     /\ \E n \in TableNames, r \in DbBatches, m \in Methods : AddSplicedBegin(n, r, m)
  \/ AddSplicedLoad
  \/ AddSplicedMeta
  \/ AddSplicedSave
  \/ AddSplicedReturn
  \/ \E n \in TableNames, w \in 1..NumThreads : WorkerGet(n, w)
  \/ \E n \in TableNames, w \in 1..NumThreads : WorkerRun(n, w)
  \/ \E n \in TableNames, w \in 1..NumThreads : WorkerDone(n, w)
  \/ \E n \in TableNames : WaitCompletion(n)

Spec == Init /\ [][NextDb]_vars

\* one table of either kind, fed every batch of up to MaxBatch records,
\* well-formed or not
MaxOpsTable == 3

NextTable ==
  \/ /\ now < MaxOpsTable
     /\ \E st \in {"monolithic", "spliced"} :
          CreateTable("t1", <<"x1">>, st, SomeT(<<"x1">>))
  \/ /\ now < MaxOpsTable
     /\ \E r \in SeqsUpTo(AllRecords, MaxBatch), m \in Methods :
          AddMonolithic("t1", r, m)
  \/ /\ now < MaxOpsTable
     /\ \E r \in SeqsUpTo(AllRecords, MaxBatch), m \in Methods :
          AddSplicedBegin("t1", r, m)
  \/ AddSplicedLoad
  \/ AddSplicedMeta
  \/ AddSplicedSave
  \/ AddSplicedReturn
  \/ \E w \in 1..NumThreads : WorkerGet("t1", w)
  \/ \E w \in 1..NumThreads : WorkerRun("t1", w)
  \/ \E w \in 1..NumThreads : WorkerDone("t1", w)

SpecTable == Init /\ [][NextTable]_vars

\* one monolithic table, fed every batch of records that pass validation
MaxOpsMono == 3

NextMono ==
  \/ /\ now < MaxOpsMono
     /\ \E k \in KeysChoices, sk \in SpliceChoices :
          CreateTable("t1", k, "monolithic", sk)
  \/ /\ now < MaxOpsMono
     /\ \E r \in SeqsUpTo(ValidRecords \cup NoneRecords, MaxBatch), m \in Methods :
          AddMonolithic("t1", r, m)

SpecMono == Init /\ [][NextMono]_vars

\* one monolithic table whose enforce_integrity is switched on and off
\* between adds of well-typed records
MaxOpsIndex == 4

NextIndex ==
  \/ /\ now < MaxOpsIndex
     /\ CreateTable("t1", <<"x1">>, "monolithic", NoneT)
  \/ /\ now < MaxOpsIndex
     /\ \E b \in BOOLEAN : SetEnforceIntegrity("t1", b)
  \/ /\ now < MaxOpsIndex
     /\ \E r \in SeqsUpTo(ValidRecords, MaxBatch), m \in Methods :
          AddMonolithic("t1", r, m)

SpecIndex == Init /\ [][NextIndex]_vars

\* one spliced table and its thread pool, fed every batch of well-typed
\* records; the table may be deleted while its shards are written
MaxOpsSpliced == 3

NextSpliced ==
  \/ /\ now < MaxOpsSpliced
     /\ \E k \in KeysChoices : CreateTable("t1", k, "spliced", SomeT(<<"x1">>))
  \/ /\ now < MaxOpsSpliced
     /\ \E r \in SeqsUpTo(ValidRecords, MaxBatch), m \in Methods :
          AddSplicedBegin("t1", r, m)
  \/ AddSplicedLoad
  \/ AddSplicedMeta
  \/ AddSplicedSave
  \/ AddSplicedReturn
  \/ /\ now < MaxOpsSpliced
     /\ DeleteTable("t1")
  \/ \E w \in 1..NumThreads : WorkerGet("t1", w)
  \/ \E w \in 1..NumThreads : WorkerRun("t1", w)
  \/ \E w \in 1..NumThreads : WorkerDone("t1", w)
  \/ WaitCompletion("t1")

SpecSpliced == Init /\ [][NextSpliced]_vars

\* one spliced table and its thread pool with the worker threads scheduled
\* fairly and the caller running whenever it is not blocked; wait_completion
\* is a call that blocks
MaxOpsPool == 3

\* records of two shards
PoolRecords == {<<"1", "a">>, <<"2", "b">>}

NextPool ==
  \/ /\ now < MaxOpsPool
     /\ CreateTable("t1", <<"x1">>, "spliced", SomeT(<<"x1">>))
  \/ /\ now < MaxOpsPool
     /\ \E r \in SeqsUpTo(PoolRecords, MaxBatch) :
          AddSplicedBegin("t1", r, "skip")
  \/ AddSplicedLoad
  \/ AddSplicedMeta
  \/ AddSplicedSave
  \/ AddSplicedReturn
  \/ /\ now < MaxOpsPool
     /\ DeleteTable("t1")
  \/ \E w \in 1..NumThreads : WorkerGet("t1", w)
  \/ \E w \in 1..NumThreads : WorkerRun("t1", w)
  \/ \E w \in 1..NumThreads : WorkerDone("t1", w)
  \/ WaitCompletionCall("t1")
  \/ WaitCompletionReturn

\* threads that are runnable get to run: each worker's three steps, the
\* caller's put and the caller's return from join
FairPool ==
  /\ \A w \in 1..NumThreads :
       /\ WF_vars(WorkerGet("t1", w))
       /\ WF_vars(WorkerRun("t1", w))
       /\ WF_vars(WorkerDone("t1", w))
  /\ WF_vars(AddSplicedSave)
  /\ WF_vars(WaitCompletionReturn)

SpecPool == Init /\ [][NextPool]_vars /\ FairPool

\* one spliced table with two str columns, both of them keys and splice
\* keys, fed records whose values contain underscores
MaxOpsPaths == 2

PathStrs == {"a", "a_b", "b_a"}
PathRecords == {<<x1, x2>> : x1 \in PathStrs, x2 \in PathStrs}

NextPaths ==
  \/ /\ now < MaxOpsPaths
     /\ CreateTableOf("t1", <<"x1", "x2">>, <<"str", "str">>, <<"x1", "x2">>,
                      "spliced", SomeT(<<"x1", "x2">>))
  \/ /\ now < MaxOpsPaths
     /\ \E r \in SeqsUpTo(PathRecords, MaxBatch), m \in Methods :
          AddSplicedBegin("t1", r, m)
  \/ AddSplicedLoad
  \/ AddSplicedMeta
  \/ AddSplicedSave
  \/ AddSplicedReturn
  \/ \E w \in 1..NumThreads : WorkerGet("t1", w)
  \/ \E w \in 1..NumThreads : WorkerRun("t1", w)
  \/ \E w \in 1..NumThreads : WorkerDone("t1", w)
  \/ WaitCompletion("t1")

SpecPaths == Init /\ [][NextPaths]_vars

\* one spliced table whose splice key ('x1',) is not among its keys ('x2',),
\* so records of one key-tuple fall into different shards
MaxOpsShards == 2

NextShards ==
  \/ /\ now < MaxOpsShards
     /\ CreateTable("t1", <<"x2">>, "spliced", SomeT(<<"x1">>))
  \/ /\ now < MaxOpsShards
     /\ \E r \in SeqsUpTo(ValidRecords, MaxBatch), m \in Methods :
          AddSplicedBegin("t1", r, m)
  \/ AddSplicedLoad
  \/ AddSplicedMeta
  \/ AddSplicedSave
  \/ AddSplicedReturn
  \/ \E w \in 1..NumThreads : WorkerGet("t1", w)
  \/ \E w \in 1..NumThreads : WorkerRun("t1", w)
  \/ \E w \in 1..NumThreads : WorkerDone("t1", w)

SpecShards == Init /\ [][NextShards]_vars

\* a step in which a counted call (create_table, delete_table, add) returns
\* a Meta over FieldTemplate, under edit, replace, reset and the metadata
\* accessor; it is constructed bare or from a metadata dict
MaxOpsMeta == 3

MetaValues ==
  {VNone, VTuple(<<"a">>), VTuple(<<"b">>), VTuple(<<"1">>), VList(<<"a">>),
   VDict([k \in {"a"} |-> "a"]), VDict([k \in {"a", "b"} |-> "b"]),
   VSet({"a"}), VSet({"b"}), VInt("1"), VStr("a")}

MetaKeys == {"tup", "dic", "st", "num", "zz"}

InitMetadata ==
  {<<>>,
   << <<"tup", VTuple(<<"a">>)>>, <<"dic", VDict([k \in {"a"} |-> "a"])>>,
      <<"st", VSet({"a"})>> >>}

InitMeta ==
  /\ InitStore
  /\ template = FieldTemplate
  /\ metaobj \in {MetaEdits(template, MetaNew(template), items) :
                    items \in InitMetadata}
  /\ checked = NoCheck

NextMeta ==
  /\ metaobj.ncalls < MaxOpsMeta
  /\ \/ \E key \in MetaKeys, value \in MetaValues : Edit(key, value)
     \/ \E key \in MetaKeys, value \in MetaValues : Replace(key, value)
     \/ \E key \in MetaKeys : Reset(key)
     \/ Metadata

SpecMeta == InitMeta /\ [][NextMeta]_vars

\* a MetaTemplate under add_typespec, delete_typespec and the frozen
\* setter: a bare MetaTemplate(('key1', 'key2')), a MetaDatabaseTemplate or
\* a MetaTableTemplate
TemplateKeys == {"key1", "key2", "name", "test"}
TemplateRules == {"int", "tuple[int]"}

InitTemplate ==
  /\ InitStore
  /\ template \in {MetaTemplateNew(<<"key1", "key2">>), MetaDatabaseTemplate,
                   MetaTableTemplate}
  /\ metaobj = MetaNew(MetaDatabaseTemplate)
  /\ checked = NoCheck

NextTemplate ==
  \/ \E key \in TemplateKeys, typerule \in TemplateRules :
       AddTypespec(key, typerule, FALSE, VNone)
  \/ \E key \in TemplateKeys : DeleteTypespec(key)
  \/ \E frozen_state \in BOOLEAN : SetFrozen(frozen_state)

SpecTemplate == InitTemplate /\ [][NextTemplate]_vars

\* conforms_typerule applied to a value and a well-formed rule
CheckValues ==
  {TAtom("int"), TAtom("str"), TAtom("float"), TAtom("bool"),
   TAtom("NoneType"),
   TSeq("list", <<>>), TSeq("list", <<TAtom("int")>>),
   TSeq("list", <<TAtom("str")>>),
   TSeq("list", <<TAtom("int"), TAtom("str")>>),
   TSeq("tuple", <<TAtom("int")>>), TSeq("tuple", <<TAtom("float")>>),
   TSeq("tuple", <<TAtom("str")>>),
   TSeq("list", <<TSeq("tuple", <<TAtom("int")>>)>>),
   TSeq("list", <<TSeq("tuple", <<TAtom("int")>>),
                  TSeq("list", <<TAtom("float")>>)>>),
   TDict(<<TAtom("str")>>, <<TAtom("str")>>),
   TDict(<<TAtom("str")>>, <<TAtom("int")>>)}

PlainRules ==
  {RPrim("int"), RPrim("str"), RPrim("float"), RPrim("none"),
   RSeq("list", RPrim("int")), RSeq("list", RPrim("str")),
   RSeq("tuple", RPrim("int")), RSeq("tuple", RPrim("str")),
   RDict(RPrim("str"), RPrim("str")), RDict(RPrim("str"), RPrim("int"))}

UnionRules ==
  {RUnion(<<RPrim("int"), RPrim("str")>>),
   RUnion(<<RPrim("str"), RPrim("int")>>),
   RSeq("list", RUnion(<<RPrim("int"), RPrim("str")>>)),
   RSeq("list", RUnion(<<RPrim("str"), RPrim("int")>>)),
   RUnion(<<RSeq("tuple", RPrim("int")), RSeq("tuple", RPrim("float"))>>),
   RUnion(<<RSeq("tuple", RPrim("float")), RSeq("tuple", RPrim("int"))>>),
   RUnion(<<RSeq("list", RPrim("str")), RPrim("int")>>),
   RUnion(<<RPrim("int"), RSeq("list", RPrim("str"))>>),
   RUnion(<<RPrim("str"), RPrim("int"), RSeq("list", RPrim("str"))>>),
   RUnion(<<RSeq("list", RPrim("str")), RPrim("str"), RPrim("int")>>),
   RSeq("list", RUnion(<<RSeq("tuple", RPrim("int")),
                         RSeq("list", RPrim("float"))>>))}

InitCheck ==
  /\ InitStore
  /\ template = MetaDatabaseTemplate
  /\ metaobj = MetaNew(template)
  /\ checked = NoCheck

NextCheck ==
  \E value \in CheckValues, rule \in PlainRules \cup UnionRules :
    Conforms(value, rule)

SpecCheck == InitCheck /\ [][NextCheck]_vars

Returns(name) == now' = now + 1 /\ lastOp'.name = name

\* ---------------------------------------------------------- record batches
\* a record whose length is not the number of columns
ArityWrong(rec) == Len(rec) # Len(Columns)

\* a record of the right length with a field of another type than its column
FieldWrong(rec) ==
  /\ Len(rec) = Len(Columns)
  /\ \E e \in 1..Len(rec) : TypeName(rec[e]) # Datatypes[e]

\* the same, a field that is None left aside
FieldWrongNotNone(rec) ==
  /\ Len(rec) = Len(Columns)
  /\ \E e \in 1..Len(rec) : rec[e] # PyNone /\ TypeName(rec[e]) # Datatypes[e]

Offending(records) ==
  {i \in 1..Len(records) :
     ArityWrong(records[i]) \/ FieldWrongNotNone(records[i])}

FirstOffending(records) ==
  CHOOSE i \in Offending(records) : \A j \in Offending(records) : i <= j

\* an add call returns in this step and leaves the instance, the table
\* Meta, the database Meta, the files and the pool as they were
AddChangesNothing ==
  /\ tbl' = tbl
  /\ fs' = fs
  /\ dbmeta' = dbmeta
  /\ dbmeta_file' = dbmeta_file
  /\ pool' = pool
  /\ jobs' = jobs

C2_NoTwoRecordsShareAKey ==
  \A n \in TableNames :
    (tbl[n].live /\ tbl[n].variant = "TableMonolithic"
       /\ tbl[n].meta.enforce_integrity) =>
      /\ \A i, j \in 1..Len(tbl[n].records) :
           i # j => keys_getter(tbl[n].meta, tbl[n].records[i])
                      # keys_getter(tbl[n].meta, tbl[n].records[j])
      /\ (lastOp.name = "add" /\ lastOp.table = n /\ lastOp.result = "ok")
           => tbl[n].meta.nrecords = Len(tbl[n].records)

\* ------------------------------------------------------------ TableSpliced
\* the splice-key tuple of a record of the tables of SpecSpliced, whose
\* splice_keys is ('x1',)
SpliceOf(rec) == <<rec[1]>>

KeyOf(n, rec) ==
  [i \in 1..Len(tbl[n].meta.keys) |->
     rec[CHOOSE c \in 1..Len(Columns) : Columns[c] = tbl[n].meta.keys[i]]]

\* no two records of the batch share a key-tuple
BatchKeysDistinct(n, batch) ==
  \A i, j \in 1..Len(batch) : i # j => KeyOf(n, batch[i]) # KeyOf(n, batch[j])

BatchOfSplice(batch, k) == SelectSeq(batch, LAMBDA r : SpliceOf(r) = k)

C5_SecondAddRaisesIndexError ==
  (/\ lastOp.name = "add"
   /\ tbl[lastOp.table].variant = "TableSpliced"
   /\ lastOp.method = "raise"
   /\ lastOp.collides) => lastOp.result = "IndexError"

\* C6: when an add call on a TableSpliced has returned, every shard file of
\* the batch's splice keys is in the directory and holds the batch's
\* records of that splice key
C6_ShardsWrittenWhenAddReturns ==
  (/\ lastOp.name = "add"
   /\ lastOp.result = "ok"
   /\ tbl[lastOp.table].variant = "TableSpliced"
   /\ fs[lastOp.table].exists
   /\ BatchKeysDistinct(lastOp.table, lastOp.records)) =>
    LET n == lastOp.table
        batch == lastOp.records
    IN \A i \in 1..Len(batch) :
         /\ SplicedFilename(SpliceOf(batch[i])) \in filenames(n)
         /\ batch[i] \in Range(load_records(n, SpliceOf(batch[i])))

\* --------------------------------------------------------- ThreadPoolQueue
\* C7: no package is invoked twice, and once wait_completion has returned
\* every package enqueued so far has been invoked exactly once and has
\* finished, those that raised and those enqueued next to them alike
C7_EveryJobRunsOnce ==
  /\ \A j \in 1..Len(jobs) : jobs[j].invoked <= 1
  /\ (lastOp.name = "wait_completion" /\ frame.pc = "idle") =>
       \A j \in 1..Len(jobs) : jobs[j].invoked = 1 /\ jobs[j].finished

\* wait_completion has returned after two packages of which one raised
C7_Witness ==
  /\ lastOp.name = "wait_completion"
  /\ frame.pc = "idle"
  /\ Len(jobs) = 2
  /\ \E j \in 1..Len(jobs) : jobs[j].raised
  /\ \E j \in 1..Len(jobs) : ~jobs[j].raised

\* ------------------------------------------------- the database manager
RECURSIVE SumNrecords(_)
SumNrecords(S) ==
  IF S = {} THEN 0
  ELSE LET n == CHOOSE n \in S : TRUE
       IN tbl[n].meta.nrecords + SumNrecords(S \ {n})

\* the tables that exist: created by a successful create_table and not
\* deleted since
ExistingTables == {n \in TableNames : tbl[n].live /\ fs[n].exists}

\* C3: between calls, the database Meta's total_table_records equals the
\* sum of nrecords over all currently existing tables
C3_TotalIsSumOfNrecords ==
  frame.pc = "idle" =>
    dbmeta.total_table_records = SumNrecords(ExistingTables)

\* C8: get_table on a table made by a successful create_table (storage type
\* monolithic or spliced, with or without splice_keys) returns an instance
\* of the matching class with the stored columns, datatypes, keys and
\* nrecords; on a name that has no table it raises ValueError
C8_GetTableReturnsTheTable ==
  lastOp.name = "get_table" =>
    LET n == lastOp.table
    IN /\ (n \in ExistingTables
           /\ tbl[n].meta.storage_type \in {"monolithic", "spliced"}) =>
             /\ lastOp.result = "ok"
             /\ lastOp.ret.variant = VariantCreated(tbl[n].meta.storage_type)
             /\ lastOp.ret.columns = tbl[n].meta.columns
             /\ lastOp.ret.datatypes = tbl[n].meta.datatypes
             /\ lastOp.ret.keys = tbl[n].meta.keys
             /\ lastOp.ret.nrecords = tbl[n].meta.nrecords
       /\ ~fs[n].exists => lastOp.result = "ValueError"

\* C9: after delete_table(name) has returned, name is no longer in the
\* 'tables' tuple of the database Meta
C9_DeletedNameLeavesMeta ==
  (lastOp.name = "delete_table" /\ lastOp.result = "ok") =>
    lastOp.table \notin Range(dbmeta.tables)

\* C10: a create_table call whose name is already listed in the database
\* Meta's 'tables', or whose storage_type is not monolithic, rolling or
\* spliced, raises ValueError and leaves the directories, their files, the
\* database Meta and its file as they were
C10_CreateTableRejectsUpFront ==
  [][(/\ Returns("create_table")
      /\ \/ lastOp'.table \in Range(dbmeta.tables)
         \/ lastOp'.storage_type \notin ValidStorageTypes)
     => /\ lastOp'.result = "ValueError"
        /\ fs' = fs
        /\ dbmeta' = dbmeta
        /\ dbmeta_file' = dbmeta_file
        /\ tbl' = tbl]_vars

\* a create_table with an accepted storage type was rejected because its
\* name is listed, while the other table has no directory
C10_Witness ==
  /\ lastOp.name = "create_table"
  /\ lastOp.result = "ValueError"
  /\ lastOp.storage_type \in ValidStorageTypes
  /\ lastOp.table \in Range(dbmeta.tables)
  /\ \E n \in TableNames : ~fs[n].exists

\* ------------------------------------------------ the database meta file
\* C11: when create_table or delete_table has returned normally, the
\* database meta file holds what Meta.write gives for the database Meta in
\* memory: tables, last_modified, table_meta_locations, total_table_records
C11_DbMetaFileFollowsMemory ==
  (/\ lastOp.name \in {"create_table", "delete_table"}
   /\ lastOp.result = "ok") => dbmeta_file = DbMetaToJson(dbmeta)


\* C12: when an add call has returned normally, the table's metadata.json
\* and the database meta file, decoded and converted field by field with
\* apply_typerule, give the table Meta and the database Meta in memory
C12_MetaFilesRoundTrip ==
  (/\ lastOp.name = "add"
   /\ lastOp.result = "ok"
   /\ fs[lastOp.table].exists) =>
    LET n == lastOp.table
        read == ApplyTblMeta(fs[n].metadata)
    IN /\ read.err = "ok"
       /\ read.meta = tbl[n].meta
       /\ ApplyDbMeta(dbmeta_file) = dbmeta


\* ----------------------------------------------------- integrity_method
\* the records of a batch whose key-tuple no earlier record of the batch has
KeptOfBatch(n, batch) ==
  {batch[i] : i \in {i \in 1..Len(batch) :
     \A j \in 1..(i - 1) : KeyOf(n, batch[j]) # KeyOf(n, batch[i])}}

\* the records a table has taken in: the record list of a TableMonolithic,
\* the records the add calls of a TableSpliced accepted
Stored(n) ==
  IF tbl[n].variant = "TableMonolithic"
  THEN Range(tbl[n].records) ELSE tbl[n].accepted

\* C13: an add call with integrity_method 'skip' of a batch that is not
\* empty to an empty table returns without raising, stores every record
\* of the batch but those whose key-tuple an earlier record of the batch
\* has, and counts the stored records in nrecords
C13_SkipDropsOnlyDuplicates ==
  (/\ lastOp.name = "add"
   /\ lastOp.method = "skip"
   /\ lastOp.empty_before
   /\ lastOp.records # <<>>
   /\ fs[lastOp.table].exists) =>
    LET n == lastOp.table
        kept == KeptOfBatch(n, lastOp.records)
    IN /\ lastOp.result = "ok"
       /\ Stored(n) = kept
       /\ tbl[n].meta.nrecords = Cardinality(kept)


\* C14: an add call with integrity_method 'raise' on a TableSpliced whose
\* batch holds two records of one key-tuple raises IndexError, whether the
\* two records have the same splice-key tuple or not
C14_BatchDuplicateRaises ==
  (/\ lastOp.name = "add"
   /\ lastOp.method = "raise"
   /\ tbl[lastOp.table].variant = "TableSpliced"
   /\ \A i \in 1..Len(lastOp.records) : ~ArityWrong(lastOp.records[i])
   /\ ~BatchKeysDistinct(lastOp.table, lastOp.records))
     => lastOp.result = "IndexError"


\* ------------------------------------------------------------ Meta fields
\* the call that just returned on the Meta, the field it named before and
\* after it
MetaCalled(name) ==
  /\ metaobj'.ncalls = metaobj.ncalls + 1
  /\ metaobj'.call.name = name

FieldRoot(key) == SeqType(get_typerule(template, key))

\* C15: a successful replace(key, v) leaves exactly v in the field; a
\* successful edit(key, u) of a tuple field holding the tuple t leaves t
\* followed by u; of a dict field holding the dict d it leaves d updated
\* with e, the values of e winning on the keys both have; and of a
\* container field whose current value is not of the field's container type
\* (the default None) it leaves the given value as is.
C15_EditMergesReplaceOverwrites ==
  [][LET c == metaobj'.call
         cur == metaobj.metadata[c.key]
         new == metaobj'.metadata[c.key]
     IN /\ (MetaCalled("replace") /\ c.result = "ok") => new = c.value
        /\ (MetaCalled("edit") /\ c.result = "ok" /\ FieldRoot(c.key) # "") =>
             /\ (FieldRoot(c.key) = "tuple" /\ cur.t = "tuple") =>
                  /\ new.t = "tuple"
                  /\ Len(new.items) = Len(cur.items) + Len(c.value.items)
                  /\ SubSeq(new.items, 1, Len(cur.items)) = cur.items
                  /\ SubSeq(new.items, Len(cur.items) + 1, Len(new.items))
                       = c.value.items
             /\ (FieldRoot(c.key) = "dict" /\ cur.t = "dict") =>
                  /\ new.t = "dict"
                  /\ DOMAIN new.map = DOMAIN cur.map \cup DOMAIN c.value.map
                  /\ \A k \in DOMAIN c.value.map : new.map[k] = c.value.map[k]
                  /\ \A k \in DOMAIN cur.map \ DOMAIN c.value.map :
                       new.map[k] = cur.map[k]
             /\ cur.t # FieldRoot(c.key) => new = c.value]_vars

\* an edit has appended ('b',) to the ('a',) a tuple field held
C15_Witness ==
  /\ metaobj.call.name = "edit"
  /\ metaobj.call.key = "tup"
  /\ metaobj.call.result = "ok"
  /\ metaobj.call.before = VTuple(<<"a">>)
  /\ metaobj.call.value = VTuple(<<"b">>)
  /\ metaobj.metadata["tup"] = VTuple(<<"a", "b">>)


\* C16: a successful edit(key, u) of a set field holding the set s leaves
\* the field holding the union of s and u.
C16_EditSetLeavesUnion ==
  [][LET c == metaobj'.call
     IN (/\ MetaCalled("edit")
         /\ c.result = "ok"
         /\ FieldRoot(c.key) = "set"
         /\ metaobj.metadata[c.key].t = "set") =>
          /\ metaobj'.metadata[c.key].t = "set"
          /\ metaobj'.metadata[c.key].elems =
               SetUnion(metaobj.metadata[c.key].elems, c.value.elems)]_vars


C18_EditReplaceRaiseAndKeepState ==
  [][LET c == metaobj'.call
     IN (MetaCalled("edit") \/ MetaCalled("replace")) =>
          /\ c.key \notin DOMAIN metaobj.metadata => c.result = "KeyError"
          /\ (/\ c.key \in DOMAIN metaobj.metadata
              /\ conformance(c.value, get_typerule(template, c.key)) # "true")
               => c.result = "TypeError"
          /\ c.result # "ok" =>
               /\ metaobj'.metadata = metaobj.metadata
               /\ metaobj'.keys_edited = metaobj.keys_edited]_vars


\* ------------------------------------------------------------ MetaTemplate
\* the call that just returned on the template
TemplateCalled(name) ==
  /\ template' # template
  /\ template'.call.name = name

\* every declared key of the template t has a typespec
EveryKeyHasTypespec(t) ==
  \A k \in Range(t.template_keys) : k \in DOMAIN t.metadata

\* C19: under any sequence of add_typespec, delete_typespec and frozen
\* setter calls a frozen MetaTemplate has a typespec for every declared
\* key; setting frozen to true while a key lacks its typespec raises
\* TypeError and leaves frozen false; and a new MetaDatabaseTemplate and a
\* new MetaTableTemplate are frozen with a typespec for each of their keys.
C19_FrozenHasEveryTypespec ==
  /\ [](/\ template.frozen => EveryKeyHasTypespec(template)
        /\ MetaDatabaseTemplate.frozen
        /\ DOMAIN MetaDatabaseTemplate.metadata =
             {DatabaseTemplateKeys[i][1] : i \in 1..Len(DatabaseTemplateKeys)}
        /\ MetaTableTemplate.frozen
        /\ DOMAIN MetaTableTemplate.metadata =
             {TableTemplateKeys[i][1] : i \in 1..Len(TableTemplateKeys)})
  /\ [][(TemplateCalled("freeze") /\ ~EveryKeyHasTypespec(template)) =>
          /\ template'.call.result = "TypeError"
          /\ ~template'.frozen]_vars

\* a frozen = True on a template that lacks a typespec has raised TypeError
\* and left the template unfrozen
C19_Witness ==
  /\ template.call.name = "freeze"
  /\ template.call.result = "TypeError"
  /\ ~EveryKeyHasTypespec(template)
  /\ DOMAIN template.metadata # {}
  /\ ~template.frozen


\* C20 as stated: once a MetaTemplate has been frozen, its typespecs are
\* those of the moment it was frozen in every later state, whatever
\* add_typespec, delete_typespec and frozen setter calls follow;
\* add_typespec on a frozen template raises TypeError, and add_typespec
\* with an undeclared key on an unfrozen one raises ValueError.
C20_TypespecsFixedOnceFrozen ==
  /\ template.was_frozen => template.metadata = template.at_freeze
  /\ (template.call.name = "add_typespec" /\ template.frozen) =>
       template.call.result = "TypeError"
  /\ (/\ template.call.name = "add_typespec"
      /\ ~template.frozen
      /\ template.call.key \notin Range(template.template_keys)) =>
       template.call.result = "ValueError"

\* C20, amended: while a MetaTemplate is frozen no call changes its
\* typespecs: add_typespec and delete_typespec raise TypeError, whatever the
\* key; the typespecs are fixed only for as long as frozen stays true,
\* since the frozen setter given False unfreezes the template.  On an
\* unfrozen template add_typespec with an undeclared key raises ValueError
\* and changes no typespec.
C20_TypespecsFixedWhileFrozen ==
  [][/\ template.frozen => template'.metadata = template.metadata
     /\ (template.frozen /\ (\/ TemplateCalled("add_typespec")
                             \/ TemplateCalled("delete_typespec"))) =>
          /\ template'.call.result = "TypeError"
          /\ template'.frozen
     /\ (/\ TemplateCalled("add_typespec")
         /\ ~template.frozen
         /\ template'.call.key \notin Range(template.template_keys)) =>
          /\ template'.call.result = "ValueError"
          /\ template'.metadata = template.metadata]_vars

\* an add_typespec for a declared key has raised TypeError on a frozen
\* template, which holds the typespecs it was frozen with
C20_Witness ==
  /\ template.frozen
  /\ template.call.name = "add_typespec"
  /\ template.call.key \in Range(template.template_keys)
  /\ template.call.result = "TypeError"
  /\ template.metadata = template.at_freeze


\* ------------------------------------------------------------- type rules
\* value fits the rule: a primitive by its type, a sequence by its type
\* and each of its elements, a dict by its type, its keys and its values, a
\* union by any one of its variants
RECURSIVE Fits(_, _)
Fits(value, rule) ==
  CASE rule.k = "prim" ->
         IF rule.name = "none" THEN value.t = "NoneType"
         ELSE IsInstance(value, rule.name)
    [] rule.k = "seq" ->
         /\ value.t = rule.name
         /\ \A i \in 1..Len(value.items) : Fits(value.items[i], rule.subs[1])
    [] rule.k = "dict" ->
         /\ value.t = "dict"
         /\ \A i \in 1..Len(value.items) : Fits(value.items[i], rule.subs[1])
         /\ \A i \in 1..Len(value.vals) : Fits(value.vals[i], rule.subs[2])
    [] OTHER -> \E i \in 1..Len(rule.subs) : Fits(value, rule.subs[i])

\* the rule has a union in it, at top level or inside a container
RECURSIVE HasUnion(_)
HasUnion(rule) ==
  \/ rule.k = "union"
  \/ \E i \in 1..Len(rule.subs) : HasUnion(rule.subs[i])

\* C21: for every well-formed rule and every value conforms_typerule
\* returns a boolean and never raises; a value that is not a mapping,
\* checked against a dict rule, gives false.
C21_ValidatorNeverRaises ==
  checked.calls = 1 =>
    /\ checked.result \in {"true", "false"}
    /\ (checked.rule.k = "dict" /\ checked.value.t # "dict") =>
         checked.result = "false"

\* C22: for a rule with a union in it, at top level or inside a container,
\* conforms_typerule is true exactly when the value conforms to one of the
\* variants (elements of a list[A|B] each to one of A and B), in whatever
\* order the variants are written.
C22_UnionIsAnyVariant ==
  (checked.calls = 1 /\ HasUnion(checked.rule)) =>
    (checked.result = "true" <=> Fits(checked.value, checked.rule))


\* ------------------------------------------------------------------ C23
\* the steps one add call has taken, in the order it took them
FileSteps == {"tblmeta_file", "dbmeta_file", "records_file", "enqueue",
              "index_file"}

MemorySteps == {"records", "index"}

AllBefore(steps, A, B) ==
  \A i, j \in 1..Len(steps) :
    (steps[i] \in A /\ steps[j] \in B) => i < j

StepsInOrder(steps) ==
  steps # <<>> =>
    /\ steps[1] = "validate"
    /\ AllBefore(steps, {"validate"}, MemorySteps \cup FileSteps)
    /\ AllBefore(steps, {"index"}, FileSteps)
    /\ AllBefore(steps, {"tblmeta_file"}, {"dbmeta_file"})
    /\ AllBefore(steps, {"tblmeta_file", "dbmeta_file"},
                 {"records_file", "enqueue"})
    /\ AllBefore(steps, FileSteps \ {"index_file"}, {"index_file"})

\* C23: within every add call of either Table variant, running or returned,
\* the validation of the batch comes first, every update of the in-memory
\* index precedes every file write and every enqueued write, the table meta
\* file precedes the database meta file and both precede the records file
\* (Monolithic) or the enqueued shard writes (Spliced), and the index file
\* is written last
C23_AddStepsInOrder ==
  /\ StepsInOrder(lastOp.steps)
  /\ StepsInOrder(frame.steps)

\* a TableSpliced add that validated, updated the index, wrote both meta
\* files, enqueued a shard write and wrote the index file has returned
C23_Witness ==
  /\ lastOp.name = "add"
  /\ lastOp.result = "ok"
  /\ \E i \in 1..Len(lastOp.steps) : lastOp.steps[i] = "enqueue"
  /\ \E i \in 1..Len(lastOp.steps) : lastOp.steps[i] = "index"
  /\ lastOp.steps[Len(lastOp.steps)] = "index_file"

\* the same for a TableMonolithic add that wrote its records file
C23_WitnessMonolithic ==
  /\ lastOp.name = "add"
  /\ lastOp.result = "ok"
  /\ \E i \in 1..Len(lastOp.steps) : lastOp.steps[i] = "records_file"
  /\ \E i \in 1..Len(lastOp.steps) : lastOp.steps[i] = "index"


\* ------------------------------------------------------------------ C24
\* the caller is inside add_package: it has a package to put on the queue
\* of its table and the queue holds NumThreads packages
PutBlocked ==
  /\ frame.pc = "save"
  /\ frame.i <= Len(frame.groups)
  /\ Len(pool[frame.table].queue) = NumThreads

\* C24: a ThreadPoolQueue built with num_threads = NumThreads never holds
\* more than NumThreads packages that no worker has taken yet and has
\* exactly NumThreads worker threads; while the queue holds NumThreads
\* packages the caller's add_package does not proceed: the only steps are
\* steps of the workers, and the caller stays where it is until the queue
\* has lost a package
C24_QueueBoundedAndPutBlocks ==
  /\ [](\A n \in TableNames :
          /\ Len(pool[n].queue) <= NumThreads
          /\ DOMAIN pool[n].workers = 1..NumThreads)
  /\ [][PutBlocked =>
          /\ frame' = frame
          /\ Len(jobs') = Len(jobs)
          /\ Len(pool'[frame.table].queue) <= Len(pool[frame.table].queue)]_vars

\* an add_package call is blocked on a full queue
C24_Witness == PutBlocked


\* ------------------------------------------------------------------ C25
\* the caller is inside the add_package call for the k-th shard of its batch
InAddPackage(k) ==
  /\ frame.pc = "save"
  /\ frame.i = k
  /\ k <= Len(frame.groups)

JobIds == 1..(MaxOpsPool * MaxBatch)

\* C25: with the worker threads scheduled fairly and every callable
\* terminating, every add_package call returns (the caller gets past the
\* put), every wait_completion call returns, and a package whose callable
\* raised is still marked done, its worker going back to take later packages
C25_PoolCallsReturn ==
  /\ \A k \in 1..MaxBatch : InAddPackage(k) ~> ~InAddPackage(k)
  /\ (frame.pc = "wait") ~> (frame.pc = "idle" /\ lastOp.name = "wait_completion")
  /\ \A id \in JobIds :
       (id <= Len(jobs) /\ jobs[id].raised)
         ~> (id <= Len(jobs) /\ jobs[id].finished)
  /\ \A w \in 1..NumThreads :
       (pool["t1"].workers[w].st # "idle") ~> (pool["t1"].workers[w].st = "idle")

\* a wait_completion call has returned after a package raised and was
\* marked done, and a worker has taken a later package since
C25_Witness ==
  /\ lastOp.name = "wait_completion"
  /\ frame.pc = "idle"
  /\ \E id \in JobIds :
       /\ id < Len(jobs)
       /\ jobs[id].raised
       /\ jobs[id].finished
       /\ jobs[id + 1].invoked = 1


\* ------------------------------------------------------------------ C26
\* the zero-based positions of the records with key-tuple k, in list order
RECURSIVE PositionsOf(_, _, _, _)
PositionsOf(meta, records, k, i) ==
  IF i > Len(records) THEN <<>>
  ELSE (IF keys_getter(meta, records[i]) = k THEN <<i - 1>> ELSE <<>>)
         \o PositionsOf(meta, records, k, i + 1)

FullIndex(meta, records) ==
  [k \in {keys_getter(meta, records[i]) : i \in 1..Len(records)} |->
     PositionsOf(meta, records, k, 1)]

\* C26: after every successful TableMonolithic.add, whatever
\* enforce_integrity is, the in-memory index and the index file map each
\* key-tuple of the record list to the tuple of all positions of the
\* records with that key-tuple, and hold no other key
C26_IndexMapsEveryPosition ==
  \A n \in TableNames :
    (/\ lastOp.name = "add"
     /\ lastOp.table = n
     /\ lastOp.result = "ok"
     /\ tbl[n].variant = "TableMonolithic") =>
      /\ tbl[n].index = FullIndex(tbl[n].meta, tbl[n].records)
      /\ fs[n].has_index
      /\ fs[n].index = tbl[n].index

\* what holds: the index is right while no two records of the list share a
\* key-tuple, as under enforce_integrity true from the start
C26_IndexWhenEnforced ==
  \A n \in TableNames :
    (/\ lastOp.name = "add"
     /\ lastOp.table = n
     /\ lastOp.result = "ok"
     /\ tbl[n].variant = "TableMonolithic"
     /\ tbl[n].meta.enforce_integrity
     /\ BatchKeysDistinct(n, tbl[n].records)) =>
      /\ tbl[n].index = FullIndex(tbl[n].meta, tbl[n].records)
      /\ fs[n].index = tbl[n].index


\* ------------------------------------------------------------------ C27
RECURSIVE SumLen(_)
SumLen(seqs) == IF seqs = <<>> THEN 0 ELSE Len(Head(seqs)) + SumLen(Tail(seqs))

\* the records in all shard files of table n
ShardRecordCount(n) ==
  LET names == filenames(n)
      f == CHOOSE g \in [1..Cardinality(names) -> names] :
             \A i, j \in 1..Cardinality(names) : i # j => g[i] # g[j]
  IN SumLen([i \in 1..Cardinality(names) |-> LoadRecords(fs[n].recs[f[i]])])

\* C27: the caller made successful add calls on one TableSpliced since its
\* creation with no other call between and then wait_completion returned:
\* every shard file holds the records accepted for its splice key over all
\* the calls, in the order of acceptance, there is no other shard file, and
\* nrecords is the number of records in all shard files
C27_ShardsHoldEveryAcceptedRecord ==
  (/\ lastOp.name = "wait_completion"
   /\ lastOp.after_add
   /\ lastOp.chain
   /\ frame.pc = "idle") =>
    LET n == lastOp.table
        run == lastOp.run
        ks == {SpliceOf(run[i]) : i \in 1..Len(run)}
    IN /\ \A k \in ks : load_records(n, k) = BatchOfSplice(run, k)
       /\ Cardinality(filenames(n)) = Cardinality(ks)
       /\ tbl[n].meta.nrecords = ShardRecordCount(n)

\* the same for one add call after the creation, where it holds
C27_OneAddThenWait ==
  (/\ lastOp.name = "wait_completion"
   /\ lastOp.after_add
   /\ lastOp.chain
   /\ lastOp.empty_before
   /\ lastOp.run = lastOp.records
   /\ frame.pc = "idle") =>
    LET n == lastOp.table
        run == lastOp.run
        ks == {SpliceOf(run[i]) : i \in 1..Len(run)}
    IN /\ \A k \in ks : load_records(n, k) = BatchOfSplice(run, k)
       /\ tbl[n].meta.nrecords = ShardRecordCount(n)


\* ------------------------------------------------------------------ C28
\* C28: an add call with integrity_method 'raise' that raises IndexError
\* leaves the stored records (the record list and the records file of a
\* TableMonolithic, the shard files of a TableSpliced), the index in memory
\* and on disk, nrecords and the database's total_table_records as they
\* were before the call
C28_IndexErrorKeepsState ==
  [][(Returns("add") /\ lastOp'.result = "IndexError"
        /\ lastOp'.method = "raise")
     => LET n == lastOp'.table
        IN /\ tbl[n].variant = "TableMonolithic"
                => tbl'[n].records = tbl[n].records
           /\ tbl'[n].index = tbl[n].index
           /\ tbl'[n].meta.nrecords = tbl[n].meta.nrecords
           /\ fs' = fs
           /\ dbmeta'.total_table_records = dbmeta.total_table_records
           /\ dbmeta_file' = dbmeta_file]_vars

\* what holds for a TableSpliced: the failed call changes no file, no index
\* and no count
C28_SplicedIndexErrorKeepsState ==
  [][(Returns("add") /\ lastOp'.result = "IndexError"
        /\ lastOp'.method = "raise"
        /\ tbl[lastOp'.table].variant = "TableSpliced")
     => /\ tbl'[lastOp'.table].index = tbl[lastOp'.table].index
        /\ tbl'[lastOp'.table].meta = tbl[lastOp'.table].meta
        /\ fs' = fs
        /\ dbmeta' = dbmeta
        /\ dbmeta_file' = dbmeta_file]_vars


\* ------------------------------------------------------------------ C29
\* C29: a create_table call that raises leaves on disk no table directory
\* and no meta file that was not there before, and leaves the database Meta,
\* with the tables it lists, as it was
C29_FailedCreateLeavesNothing ==
  [][(Returns("create_table") /\ lastOp'.result # "ok")
     => LET n == lastOp'.table
        IN /\ fs'[n].exists => fs[n].exists
           /\ fs'[n].has_meta => fs[n].has_meta
           /\ dbmeta' = dbmeta
           /\ dbmeta_file' = dbmeta_file
           /\ tbl' = tbl]_vars


\* ------------------------------------------------------------------ C30
\* C30: the index of a TableSpliced never maps two distinct splice-key
\* tuples to one shard file, and no shard file holds records of two splice
\* keys
C30_IndexIsInjective ==
  \A n \in TableNames :
    (tbl[n].live /\ tbl[n].variant = "TableSpliced") =>
      /\ \A k1, k2 \in DOMAIN tbl[n].index :
           k1 # k2 => tbl[n].index[k1] # tbl[n].index[k2]
      /\ \A f \in filenames(n) :
           LET recs == LoadRecords(fs[n].recs[f])
           IN \A i, j \in 1..Len(recs) :
                splice_key_getter(tbl[n].meta, recs[i])
                  = splice_key_getter(tbl[n].meta, recs[j])

====
